---- MODULE Spec2Model ----
(***************************************************************************)
(* A model of the scan / clean / analyze pipeline of pc-garbage-cleaner:   *)
(*   core/scanner.py   Scanner   (targets, scan worker, abort)             *)
(*   core/cleaner.py   Cleaner   (clean worker, deletion methods, abort)   *)
(*   core/analyzer.py  Analyzer  (analysis worker, abort)                  *)
(* Every worker thread is a process with a program counter; the public     *)
(* methods are atomic actions of the (single) calling thread.  A caller's  *)
(* callback is an input of the call that passes it: it either returns or   *)
(* raises.  Python list objects are kept in a heap indexed by the worker   *)
(* that allocated them, so that a reference (self.results) and the object  *)
(* it points to are distinct things.                                       *)
(***************************************************************************)
EXTENDS Integers, Sequences, FiniteSets, TLC

\* ------------------------------------------------------------------ bounds
\* ScanTarget objects ever constructed and handed to add_target.
MaxTargets == 2
\* scan() invocations that are accepted (worker threads ever started).
MaxScans == 2

\* Tasks in the list handed to one clean() call.
MaxTasks == 3
\* clean() invocations that are accepted (worker threads ever started).
MaxCleans == 2
\* Removals and renamings that the operating system refuses.
MaxFaults == 1
\* Paths that other processes remove.
MaxRemoves == 1
\* _clean_file invocations on tasks made one at a time.
MaxOps == 3
\* Files that other processes create again after they were cleaned.
MaxCreates == 2
\* The largest file size, and the last second of the clock.
MaxSize == 1
MaxNow == 2
\* analyze_disk() invocations that start a thread.
MaxAnalyses == 2
\* Files in the directory that is analysed.
MaxEntries == 2
\* The largest max_depth argument of an analysis.
MaxDepth == 2
\* Files, and directories, added to one AnalyzeResult.
MaxAdds == 22
\* Include patterns of a target, files handed to _process_file, and the
\* age in days of the oldest file.
MaxPatterns == 2
MaxFiles == 2
MaxAge == 1
\* The moment of the scan, in half days since the oldest file was written.
MaxTime == 4
MaxCalls == 3     \* add_custom_target() calls
MaxDigits == 6    \* base-1024 digits of a byte count
MaxName == 3      \* characters of a file name or a pattern

ScanWorkers == 1..MaxScans
CleanWorkers == 1..MaxCleans
AnalyzeWorkers == 1..MaxAnalyses

\* A caller's callback argument: absent, or a callable.
Callbacks == {"None", "cb"}

VARIABLES
    \* ---- Scanner (core/scanner.py)
    targets,        \* self.targets: sequence of ScanTarget [id, enabled]
    nextTarget,     \* identity of the next ScanTarget object constructed
    results,        \* self.results: a reference to a list object
    resultLists,    \* the list objects: resultLists[0] is __init__'s list,
                    \* resultLists[w] the one worker w allocates (line 459)
    running,        \* self.running
    abort_flag,     \* self.abort_flag
    scan_ret,       \* what the last scan() call returned
    scanCallbacks,  \* the callbacks the application passes to scan()
    scanW,          \* the scan worker threads: pc and locals of _scan_thread
    scanProgress,   \* per worker: the progress_callback invocations, in order
    scanCompleted,  \* per worker: the complete_callback invocations, in order
    scanAbortedAt   \* per worker: the number of the target whose walk was in
                    \* progress at the first abort_scan() call (0: none)

VARIABLES
    \* ---- Cleaner (core/cleaner.py) and the file system it works on
    fs,             \* the paths that exist: path -> [kind, size]
    removes,        \* paths removed by other processes so far
    faults,         \* operations the operating system has refused so far
    now,            \* int(time.time())
    method,         \* self.method
    clean_running,  \* self.running
    clean_abort_flag, \* self.abort_flag
    clean_ret,      \* what the last clean() call returned
    cleanArgs,      \* the method and callbacks the application passes to clean()
    cleanW,         \* the clean worker threads: pc and locals of _clean_thread
    cleanProgress,  \* per thread: its progress_callback invocations, in order
    cleanCompleted  \* per thread: its complete_callback invocations, in order

scanVars == <<targets, nextTarget, results, resultLists, running, abort_flag,
              scan_ret, scanCallbacks, scanW, scanProgress, scanCompleted,
              scanAbortedAt>>

cleanVars == <<fs, removes, faults, now, method, clean_running,
               clean_abort_flag, clean_ret, 
               cleanArgs, cleanW, cleanProgress, cleanCompleted>>

VARIABLES
    \* ---- Analyzer (core/analyzer.py)
    is_analyzing,   \* self.is_analyzing
    aborted,        \* self.aborted
    result,         \* self.result: 0 (None) or the AnalyzeResult made by thread k
    analyze_progress_callback, \* 0 (None) or the callback passed by call k
    analyze_complete_callback, \* 0 (None) or the callback passed by call k
    analyze_ret,    \* what the last analyze_disk() call returned
    analyzeCallbacks, \* whether the application passes callbacks to analyze_disk()
    analyzeResults, \* the AnalyzeResult objects, by the thread that made them
    analyzeW,       \* the analysis threads: pc and locals of _analyze_thread
    analyzeCompleted, \* per callback: its invocations as completion callback
    analyzeProgress \* per callback: its invocations as progress callback

analyzeVars == <<is_analyzing, aborted, result, analyze_progress_callback,
                 analyze_complete_callback, analyze_ret, analyzeCallbacks,
                 analyzeResults, analyzeW, analyzeCompleted, analyzeProgress>>

VARIABLES
    \* ---- Cleaner._clean_file applied to one task after the other
    fileOps,        \* the invocations, in order: task, method, what the
                    \* file system did, and the CleanResult returned
    creates         \* files created by other processes so far

fileVars == <<fileOps, creates>>

VARIABLES
    \* ---- Analyzer._analyze_directory over one directory tree
    disk,           \* the tree on the disk: path -> [is_dir, size]
    max_depth,      \* the max_depth argument (NoDepth for None)
    walk_aborted,   \* self.aborted during this analysis
    items,          \* the DiskItem objects, by path
    walk_result,    \* self.result of this analysis
    stack,          \* the _analyze_directory calls in progress, outermost first
    walked,         \* (history) directories whose call reached line 332
    walk_faulted    \* (history) some entry or directory could not be read

walkVars == <<disk, max_depth, walk_aborted, items, walk_result, stack, walked,
              walk_faulted>>

VARIABLES
    \* ---- AnalyzeResult.largest_files / largest_dirs under additions
    largest_files,  \* self.largest_files: sequence of [path, size]
    largest_dirs,   \* self.largest_dirs: sequence of [path, size]
    seen_files,     \* (history) files added so far, by size
    seen_dirs       \* (history) directories added so far, by size

largestVars == <<largest_files, largest_dirs, seen_files, seen_dirs>>

VARIABLES
    \* ---- Scanner._process_file applied to the files of one target
    proc_target,    \* the ScanTarget's rule: patterns, size and age bounds
    filter_obj,     \* the filter_obj argument of scan()
    scan_result,    \* the target's ScanResult
    processed       \* (history) the files handed to _process_file so far

procVars == <<proc_target, filter_obj, scan_result, processed>>

VARIABLES
    \* ---- Scanner._process_file on files with modification times
    stat_log        \* (history) what os.stat said of each file processed

ageVars == <<stat_log>>

VARIABLES
    \* ---- the targets a scan was called with (history)
    scan_called_with \* per scan thread: the enabled targets when scan() was called

snapVars == <<scan_called_with>>

VARIABLES
    \* ---- Scanner.add_custom_target and Scanner._scan_target (core/scanner.py)
    dirs,           \* the directories that exist
    custom_targets, \* self.targets, built by add_custom_target
    custom_calls,   \* (history) the add_custom_target calls and what they returned
    root_snapshot,  \* enabled_targets of the scan thread, "None" before the scan
    root_results    \* self.results of the scan, with whether each root existed

rootVars == <<dirs, custom_targets, custom_calls, root_snapshot, root_results>>

VARIABLES
    \* ---- SizeUtils (utils/size_utils.py)
    size_in_bytes,  \* the byte count that is formatted
    size_str,       \* the string bytes_to_human_readable returned
    size_out,       \* the byte count human_readable_to_bytes returned
    size_pc         \* "in", "str" or "out": how far the round trip has got

sizeVars == <<size_in_bytes, size_str, size_out, size_pc>>

VARIABLES
    \* ---- Cleaner._secure_delete, statement by statement (core/cleaner.py)
    sd_exists,      \* the file is there
    sd_size,        \* its size in bytes
    sd_pc,          \* the statement _secure_delete is at
    sd_locals,      \* file_size, p, bytes_left and the position of the file object
    sd_log,         \* the operations made on the file, in order
    sd_faulted      \* (history) an operation of the try block raised

secureVars == <<sd_exists, sd_size, sd_pc, sd_locals, sd_log, sd_faulted>>

VARIABLES
    \* ---- Scanner._match_pattern alone
    glob_filename,  \* the file name
    glob_pattern,   \* the pattern
    glob_result     \* "none", or what _match_pattern returned

globVars == <<glob_filename, glob_pattern, glob_result>>

VARIABLES
    \* ---- Scanner._scan_directory, entry by entry (core/scanner.py)
    ent_target,     \* the target that is scanned
    ent_pos,        \* the entry of the tree the walk has come to
    ent_pc,         \* "check" (the flag is looked at), "process" or "returned"
    ent_result,     \* the ScanResult of the target
    ent_kinds,      \* (history) what happened at each entry
    ent_abort,      \* self.abort_flag
    ent_abort_at    \* (history) the number of recorded files when the flag was set

entryVars == <<ent_target, ent_pos, ent_pc, ent_result, ent_kinds, ent_abort,
               ent_abort_at>>

\* The component a caller drives when one of the three is exercised.
VARIABLES driven
leakVars == <<driven>>

vars == <<scanVars, cleanVars, analyzeVars, fileVars, walkVars,
          largestVars, procVars, ageVars, snapVars, rootVars, sizeVars,
          secureVars, globVars, entryVars, leakVars>>

\* ------------------------------------------------------------- Scanner

\* ScanTarget.__init__: the object's identity and its enabled flag.
ScanTarget(id, enabled) == [id |-> id, enabled |-> enabled]

\* ScanResult.__init__: the result of one target's walk.
ScanResult(target) == [target |-> target]

\* Mutant: the enabled flag is not looked at.
EnabledTargetsAll(ts) == [i \in DOMAIN ts |-> ts[i].id]

\* [t for t in self.targets if t.enabled], as the ids of the kept objects.
RECURSIVE EnabledTargets(_)
EnabledTargets(ts) ==
    IF ts = <<>> THEN <<>>
    ELSE IF Head(ts).enabled
         THEN <<Head(ts).id>> \o EnabledTargets(Tail(ts))
         ELSE EnabledTargets(Tail(ts))

\* del self.targets[i] for a 0-based index i within range.
DelAt(s, i) == [k \in 1..(Len(s) - 1) |-> IF k <= i THEN s[k] ELSE s[k + 1]]

\* int((current - 0.5) * 100 / total_targets), total_targets > 0.
PercentBefore(current, total) == ((2 * current - 1) * 100) \div (2 * total)

\* Mutant: the percentage of the targets before the current one.
PercentOfPrevious(current, total) == ((current - 1) * 100) \div total

\* int(current * 100 / total_targets), total_targets > 0.
PercentAfter(current, total) == (current * 100) \div total

\* A thread that has not been created (and the frame of one that has ended).
ScanIdleWorker ==
    [pc |-> "idle", enabled_targets |-> <<>>, total_targets |-> 0,
     current |-> 0, progress_callback |-> "None", complete_callback |-> "None"]

\* The end of a worker thread: its frame (the locals) is gone.
ScanEnded(how) == [ScanIdleWorker EXCEPT !.pc = how]

\* Scanner.__init__; the application's callbacks are chosen once.
ScannerInit ==
    /\ targets = <<>>
    /\ nextTarget = 1
    /\ results = 0
    /\ resultLists = [l \in 0..MaxScans |-> <<>>]
    /\ running = FALSE
    /\ abort_flag = FALSE
    /\ scan_ret = "none"
    /\ scanCallbacks \in [progress : Callbacks, complete : Callbacks]
    /\ scanW = [w \in ScanWorkers |-> ScanIdleWorker]
    /\ scanProgress = [w \in ScanWorkers |-> <<>>]
    /\ scanCompleted = [w \in ScanWorkers |-> <<>>]
    /\ scanAbortedAt = [w \in ScanWorkers |-> 0]

\* Scanner.add_target(ScanTarget(..., enabled=enabled)).
AddTarget(enabled) ==
    /\ nextTarget <= MaxTargets
    /\ targets' = Append(targets, ScanTarget(nextTarget, enabled))
    /\ nextTarget' = nextTarget + 1
    /\ UNCHANGED <<results, resultLists, running, abort_flag, scan_ret,
                   scanCallbacks, scanW, scanProgress, scanCompleted,
                   scanAbortedAt>>

\* Scanner.remove_target(target_index): out of range is a no-op.
RemoveTarget(target_index) ==
    /\ targets' = IF 0 <= target_index /\ target_index < Len(targets)
                  THEN DelAt(targets, target_index)
                  ELSE targets
    /\ UNCHANGED <<nextTarget, results, resultLists, running, abort_flag,
                   scan_ret, scanCallbacks, scanW, scanProgress, scanCompleted,
                   scanAbortedAt>>

\* Scanner.clear_targets().
ClearTargets ==
    /\ targets' = <<>>
    /\ UNCHANGED <<nextTarget, results, resultLists, running, abort_flag,
                   scan_ret, scanCallbacks, scanW, scanProgress, scanCompleted,
                   scanAbortedAt>>

\* The worker thread the next accepted scan() creates.
NextScanWorker == CHOOSE w \in ScanWorkers :
    /\ scanW[w].pc = "idle"
    /\ \A v \in ScanWorkers : v < w => scanW[v].pc # "idle"

\* Mutant: scan() without its run-flag guard.
ScanRefusedNever == FALSE

\* The guard of Scanner.scan: `if self.running: return False`.
ScanRefused == running

\* Scanner.scan(filter_obj, progress_callback, complete_callback).
Scan(progress_callback, complete_callback) ==
    IF ScanRefused
    THEN /\ scan_ret' = "False"
         /\ UNCHANGED <<targets, nextTarget, results, resultLists, running,
                        abort_flag, scanCallbacks, scanW, scanProgress,
                        scanCompleted, scanAbortedAt>>
    ELSE /\ \E w \in ScanWorkers : scanW[w].pc = "idle"
         /\ abort_flag' = FALSE
         /\ running' = TRUE
         /\ scanW' = [scanW EXCEPT ![NextScanWorker] =
                         [@ EXCEPT !.pc = "start",
                                   !.progress_callback = progress_callback,
                                   !.complete_callback = complete_callback]]
         /\ scan_ret' = "True"
         /\ UNCHANGED <<targets, nextTarget, results, resultLists,
                        scanCallbacks, scanProgress, scanCompleted,
                        scanAbortedAt>>

\* Mutant: abort_scan() without its run-flag test.
AbortScanUnguarded ==
    /\ abort_flag' = TRUE
    /\ UNCHANGED <<targets, nextTarget, results, resultLists, running,
                   scan_ret, scanCallbacks, scanW, scanProgress, scanCompleted,
                   scanAbortedAt>>

\* Scanner.abort_scan().
AbortScan ==
    /\ abort_flag' = IF running THEN TRUE ELSE abort_flag
    /\ scanAbortedAt' = [w \in ScanWorkers |->
          IF running /\ scanW[w].pc = "walk" /\ scanAbortedAt[w] = 0
          THEN scanW[w].current ELSE scanAbortedAt[w]]
    /\ UNCHANGED <<targets, nextTarget, results, resultLists, running,
                   scan_ret, scanCallbacks, scanW, scanProgress, scanCompleted>>

\* _scan_thread, lines 459-462: a fresh list replaces self.results and the
\* enabled targets are snapshotted.
ScanThreadStart(w) ==
    /\ scanW[w].pc = "start"
    /\ results' = w
    /\ resultLists' = [resultLists EXCEPT ![w] = <<>>]
    /\ scanW' = [scanW EXCEPT ![w] =
                    [@ EXCEPT !.pc = "loop",
                              !.enabled_targets = EnabledTargets(targets),
                              !.total_targets = Len(EnabledTargets(targets)),
                              !.current = 0]]
    /\ UNCHANGED <<targets, nextTarget, running, abort_flag, scan_ret,
                   scanCallbacks, scanProgress, scanCompleted, scanAbortedAt>>

\* The loop's exit test, lines 464-466: the targets are exhausted, or the
\* abort flag is seen at the head of an iteration.
ScanLoopExits(w) ==
    \/ scanW[w].current = scanW[w].total_targets
    \/ abort_flag

\* _scan_thread leaves the loop.
ScanLoopExit(w) ==
    /\ scanW[w].pc = "loop"
    /\ ScanLoopExits(w)
    /\ scanW' = [scanW EXCEPT ![w].pc = "finish"]
    /\ UNCHANGED <<targets, nextTarget, results, resultLists, running,
                   abort_flag, scan_ret, scanCallbacks, scanProgress,
                   scanCompleted, scanAbortedAt>>

\* Mutant: the progress callback is invoked before the walks only.
ScanProgressCallOnce(w, args, raises, next, cur) ==
    /\ ~raises
    /\ scanW' = [scanW EXCEPT ![w] = [@ EXCEPT !.pc = next, !.current = cur]]
    /\ scanProgress' = [scanProgress EXCEPT ![w] =
          IF scanW[w].progress_callback = "None" \/ next = "loop" THEN @
          ELSE Append(@, args)]

\* A call `if cb: cb(args)` made by worker w at one of its progress calls:
\* the invocation is logged; an exception of the callback is caught nowhere
\* in _scan_thread and ends the thread.
ScanProgressCall(w, args, raises, next, cur) ==
    IF scanW[w].progress_callback = "None"
    THEN /\ ~raises
         /\ scanW' = [scanW EXCEPT ![w] = [@ EXCEPT !.pc = next, !.current = cur]]
         /\ UNCHANGED scanProgress
    ELSE /\ scanProgress' = [scanProgress EXCEPT ![w] = Append(@, args)]
         /\ scanW' = [scanW EXCEPT ![w] =
               IF raises THEN ScanEnded("crashed")
               ELSE [@ EXCEPT !.pc = next, !.current = cur]]

\* _scan_thread, lines 464-473: the next target is taken, current is
\* incremented and the progress callback is invoked before the walk.
ScanBeginTarget(w, raises) ==
    /\ scanW[w].pc = "loop"
    /\ ~ScanLoopExits(w)
    /\ LET cur == scanW[w].current + 1
           tot == scanW[w].total_targets
       IN ScanProgressCall(w, <<cur - 1, tot, PercentBefore(cur, tot)>>,
                           raises, "walk", cur)
    /\ UNCHANGED <<targets, nextTarget, results, resultLists, running,
                   abort_flag, scan_ret, scanCallbacks, scanCompleted,
                   scanAbortedAt>>

\* _scan_thread, lines 476-477: _scan_target returns the target's ScanResult
\* (it catches every exception of the walk) and the result is appended to the
\* list self.results refers to at that moment.
ScanEndWalk(w) ==
    /\ scanW[w].pc = "walk"
    /\ resultLists' = [resultLists EXCEPT ![results] =
           Append(@, ScanResult(scanW[w].enabled_targets[scanW[w].current]))]
    /\ scanW' = [scanW EXCEPT ![w].pc = "after"]
    /\ UNCHANGED <<targets, nextTarget, results, running, abort_flag, scan_ret,
                   scanCallbacks, scanProgress, scanCompleted, scanAbortedAt>>

\* _scan_thread, lines 480-486: the progress callback after the walk.
ScanAfterWalk(w, raises) ==
    /\ scanW[w].pc = "after"
    /\ LET cur == scanW[w].current
           tot == scanW[w].total_targets
       IN ScanProgressCall(w, <<cur, tot, PercentAfter(cur, tot)>>,
                           raises, "loop", cur)
    /\ UNCHANGED <<targets, nextTarget, results, resultLists, running,
                   abort_flag, scan_ret, scanCallbacks, scanCompleted,
                   scanAbortedAt>>

\* _scan_thread, line 489: self.running = False.
ScanFinish(w) ==
    /\ scanW[w].pc = "finish"
    /\ running' = FALSE
    /\ scanW' = [scanW EXCEPT ![w].pc = "complete"]
    /\ UNCHANGED <<targets, nextTarget, results, resultLists, abort_flag,
                   scan_ret, scanCallbacks, scanProgress, scanCompleted,
                   scanAbortedAt>>

\* _scan_thread, lines 491-492: complete_callback(self.results).  The
\* argument is the list self.results refers to when the call is made; the
\* invocation is logged with that reference and the list's content then.
\* The thread ends with this call, whether the callback returns or raises.
ScanComplete(w) ==
    /\ scanW[w].pc = "complete"
    /\ scanCompleted' =
          IF scanW[w].complete_callback = "None" THEN scanCompleted
          ELSE [scanCompleted EXCEPT ![w] =
                   Append(@, [list |-> results, value |-> resultLists[results]])]
    /\ scanW' = [scanW EXCEPT ![w] = ScanEnded("done")]
    /\ UNCHANGED <<targets, nextTarget, results, resultLists, running,
                   abort_flag, scan_ret, scanCallbacks, scanProgress,
                   scanAbortedAt>>

\* The scanner with a caller that builds and extends the target list, scans
\* and aborts at any moment.


\* ------------------------------------------------------------- Cleaner

\* CleanMethod.
Methods == {"RECYCLE_BIN", "PERMANENT", "RENAME", "SECURE"}

\* The `method` arguments the application passes to clean(): none (the
\* cleaner's default, RECYCLE_BIN, applies) or an explicit method.
CallMethods == {"None"} \cup (Methods \ {"RECYCLE_BIN"})

\* The file names the tasks of a clean() call refer to, in task order.
Names == <<"a", "b", "c", "d", "e">>

\* A path is the sequence of its dot-separated parts.
TaskPath(i) == <<Names[i]>>

\* file_path + ".bak"
Bak(p) == Append(p, "bak")

\* The decimal digits of a timestamp, as one part of a path.
Stamp(t) == <<"1", "2", "3", "4", "5", "6", "7", "8", "9">>[t]

\* Mutant: a second backup name that ignores the timestamp.
BakAgain(p, t) == Bak(p)

\* f"{file_path}.{timestamp}.bak"
BakTs(p, t) == p \o <<Stamp(t), "bak">>

\* os.path.exists(p)
Exists(fsys, p) == p \in DOMAIN fsys

\* os.remove(p), shutil.rmtree(p), send2trash(p): the path is gone.
Removed(fsys, p) == [q \in DOMAIN fsys \ {p} |-> fsys[q]]

\* os.rename(p, np): np takes the place of p (an existing np is replaced).
Renamed(fsys, p, np) ==
    [q \in (DOMAIN fsys \ {p}) \cup {np} |-> IF q = np THEN fsys[p] ELSE fsys[q]]

\* CleanTask.__init__: the size is read when the task is made (0 when the
\* path cannot be read).
CleanTask(fsys, p) ==
    [file_path |-> p, size |-> IF Exists(fsys, p) THEN fsys[p].size ELSE 0]

\* The list of the first n tasks.
Tasks(fsys, n) == [i \in 1..n |-> CleanTask(fsys, TaskPath(i))]

\* Mutant: a CleanResult that drops the error message.
CleanResultNoError(task, success, error) ==
    [file_path |-> task.file_path, size |-> task.size,
     success |-> success, error |-> "None"]

\* CleanResult.__init__: path and size are copied from the task.
CleanResult(task, success, error) ==
    [file_path |-> task.file_path, size |-> task.size,
     success |-> success, error |-> error]

\* The message of a task whose path does not exist (line 177).
NotFound == "file not found"

\* str(e), the message of the exception a deletion strategy raised (line 213).
Message == "OSError"

\* Mutant: a secure delete that overwrites the file and leaves it in place.
SecureDeleteKeeps(fsys, p, removeFails) == [fs |-> fsys, raised |-> FALSE]

\* Cleaner._secure_delete(p) of a file, lines 223-258: the overwrite passes,
\* then os.remove; when anything in that raised, os.remove is tried (again)
\* and its exception, if any, propagates.  removeFails: os.remove raises.
SecureDelete(fsys, p, removeFails) ==
    IF removeFails
    THEN [fs |-> fsys, raised |-> TRUE]
    ELSE [fs |-> Removed(fsys, p), raised |-> FALSE]

\* The deletion strategy of Cleaner._clean_file for an existing path, lines
\* 180-206: the file system it leaves and whether it raised.  fails: the
\* operating system refuses the removal or the renaming.
ApplyMethod(fsys, p, m, t, fails) ==
    CASE m = "RECYCLE_BIN" ->
           IF fails THEN [fs |-> fsys, raised |-> TRUE]
           ELSE [fs |-> Removed(fsys, p), raised |-> FALSE]
      [] m = "PERMANENT" ->
           IF fails THEN [fs |-> fsys, raised |-> TRUE]
           ELSE [fs |-> Removed(fsys, p), raised |-> FALSE]
      [] m = "RENAME" ->
           LET new_path == IF Exists(fsys, Bak(p)) THEN BakTs(p, t) ELSE Bak(p)
           IN IF fails THEN [fs |-> fsys, raised |-> TRUE]
              ELSE [fs |-> Renamed(fsys, p, new_path), raised |-> FALSE]
      [] m = "SECURE" ->
           IF fsys[p].kind # "dir"
           THEN SecureDelete(fsys, p, fails)
           ELSE IF fails THEN [fs |-> fsys, raised |-> TRUE]
                ELSE [fs |-> Removed(fsys, p), raised |-> FALSE]

\* Cleaner._clean_file(task, method), lines 172-213: the file system it
\* leaves and the CleanResult it returns.  Every exception is caught and
\* becomes a failed result.
CleanFile(fsys, task, m, t, fails) ==
    IF ~Exists(fsys, task.file_path)
    THEN [fs |-> fsys, result |-> CleanResult(task, FALSE, NotFound)]
    ELSE LET r == ApplyMethod(fsys, task.file_path, m, t, fails)
         IN [fs |-> r.fs,
             result |-> IF r.raised THEN CleanResult(task, FALSE, Message)
                        ELSE CleanResult(task, TRUE, "None")]

\* int((current / total) * 100) if total > 0 else 100 (exact for total < 50).
CleanPercent(current, total) ==
    IF total > 0 THEN (current * 100) \div total ELSE 100

\* A thread that has not been created (and the frame of one that has ended).
CleanIdleWorker ==
    [pc |-> "idle", tasks |-> <<>>, method |-> "None", i |-> 0,
                                results |-> <<>>, 
     progress_callback |-> "None", complete_callback |-> "None",
     aborted |-> FALSE]   \* (history) abort_clean() took effect during the loop

\* The end of a worker thread: its frame (the locals) is gone.
CleanEnded(how) == [CleanIdleWorker EXCEPT !.pc = how]

\* The file system at the start: the task paths exist, every second one a
\* directory.
StartFs ==
    [p \in {TaskPath(i) : i \in 1..MaxTasks} |->
        IF \E i \in 1..MaxTasks : p = TaskPath(i) /\ i % 2 = 0
        THEN [kind |-> "dir", size |-> 0]
        ELSE [kind |-> "file", size |-> 1]]

\* Cleaner.__init__ with the default method; the application's arguments to
\* clean() are chosen once.
CleanerInit ==
    /\ fs = StartFs
    /\ removes = 0
    /\ faults = 0
    /\ now = 1
    /\ method = "RECYCLE_BIN"
    /\ clean_running = FALSE
    /\ clean_abort_flag = FALSE
    /\ clean_ret = "none"
    /\ cleanArgs \in [method : CallMethods,
                      progress : Callbacks, complete : Callbacks]
    /\ cleanW = [w \in CleanWorkers |-> CleanIdleWorker]
    /\ cleanProgress = [w \in CleanWorkers |-> <<>>]
    /\ cleanCompleted = [w \in CleanWorkers |-> <<>>]

\* Another process removes a path.
ExternalRemove(p) ==
    /\ removes < MaxRemoves
    /\ Exists(fs, p)
    /\ fs' = Removed(fs, p)
    /\ removes' = removes + 1
    /\ UNCHANGED <<faults, now, method, clean_running, clean_abort_flag,
                   clean_ret, 
                   cleanArgs, cleanW, cleanProgress, cleanCompleted>>

\* The threads that have not been created.
CleanFree == {w \in CleanWorkers : cleanW[w].pc = "idle"}

\* The worker thread the next accepted clean() creates.
NextCleanWorker == CHOOSE w \in CleanFree : \A v \in CleanFree : w <= v

\* Mutant: a loop that does not look at the abort flag.
CleanLoopExitsIgnoringAbort(w) == cleanW[w].i = Len(cleanW[w].tasks)

\* Mutant: the loop is also left after a task that failed.
CleanLoopExitsOnFailure(w) ==
    \/ cleanW[w].i = Len(cleanW[w].tasks)
    \/ clean_abort_flag
    \/ cleanW[w].i > 0 /\ ~cleanW[w].results[cleanW[w].i].success

\* Mutant: clean() without its run-flag guard.
CleanRefusedNever == FALSE

\* The guard of Cleaner.clean: `if self.running: return False`.
CleanRefused == clean_running

\* Cleaner.clean(tasks, method, progress_callback, complete_callback).
Clean(tasks, m, progress_callback, complete_callback) ==
    IF CleanRefused
    THEN /\ clean_ret' = "False"
         /\ UNCHANGED <<fs, removes, faults, now, method, clean_running,
                        clean_abort_flag, 
                        cleanArgs, cleanW, cleanProgress, cleanCompleted>>
    ELSE /\ CleanFree # {}
         /\ clean_abort_flag' = FALSE
         /\ clean_running' = TRUE
         /\ cleanW' = [cleanW EXCEPT ![NextCleanWorker] =
               [@ EXCEPT !.pc = "loop",
                         !.tasks = tasks,
                         !.method = IF m = "None" THEN method ELSE m,
                         !.progress_callback = progress_callback,
                         !.complete_callback = complete_callback]]
         /\ UNCHANGED <<cleanProgress, cleanCompleted>>
         /\ clean_ret' = "True"
         /\ UNCHANGED <<fs, removes, faults, now, method, cleanArgs>>

\* Cleaner.abort_clean().
AbortClean ==
    /\ clean_abort_flag' = IF clean_running THEN TRUE ELSE clean_abort_flag
    /\ cleanW' = [w \in CleanWorkers |->
          IF clean_running /\ cleanW[w].pc \in {"loop", "clean"}
          THEN [cleanW[w] EXCEPT !.aborted = TRUE] ELSE cleanW[w]]
    /\ UNCHANGED <<fs, removes, faults, now, method, clean_running, clean_ret,
                   cleanArgs, cleanProgress, cleanCompleted>>

\* The loop's exit test, lines 136-139: the tasks are exhausted, or the abort
\* flag is seen at the head of an iteration.
CleanLoopExits(w) ==
    \/ cleanW[w].i = Len(cleanW[w].tasks)
    \/ clean_abort_flag

\* _clean_thread leaves the loop.
CleanLoopExit(w) ==
    /\ cleanW[w].pc = "loop"
    /\ CleanLoopExits(w)
    /\ cleanW' = [cleanW EXCEPT ![w].pc = "finish"]
    /\ UNCHANGED <<fs, removes, faults, now, method, clean_running,
                   clean_abort_flag, clean_ret, 
                   cleanArgs, cleanProgress, cleanCompleted>>

\* _clean_thread, lines 136-146: the next task is taken and the progress
\* callback is invoked with its 1-based index, before the task is cleaned.
\* An exception of the callback is caught nowhere and ends the thread.
CleanBeginTask(w, raises) ==
    /\ cleanW[w].pc = "loop"
    /\ ~CleanLoopExits(w)
    /\ LET current == cleanW[w].i + 1
           total == Len(cleanW[w].tasks)
       IN IF cleanW[w].progress_callback = "None"
          THEN /\ ~raises
               /\ cleanW' = [cleanW EXCEPT ![w].pc = "clean"]
               /\ UNCHANGED cleanProgress
          ELSE /\ cleanProgress' = [cleanProgress EXCEPT ![w] =
                     Append(@, <<current, total, CleanPercent(current,
                                 total)>>)]
               /\ cleanW' = [cleanW EXCEPT ![w] =
                     IF raises THEN CleanEnded("crashed")
                     ELSE [@ EXCEPT !.pc = "clean"]]
    /\ UNCHANGED <<fs, removes, faults, now, method, clean_running,
                   clean_abort_flag, clean_ret, 
                   cleanArgs, cleanCompleted>>

\* _clean_thread, lines 149-153: the task is cleaned and its result appended.
CleanTaskStep(w, fails) ==
    /\ cleanW[w].pc = "clean"
    /\ fails => /\ faults < MaxFaults
                /\ Exists(fs, cleanW[w].tasks[cleanW[w].i + 1].file_path)
    /\ faults' = IF fails THEN faults + 1 ELSE faults
    /\ LET task == cleanW[w].tasks[cleanW[w].i + 1]
           r == CleanFile(fs, task, cleanW[w].method, now, fails)
       IN /\ fs' = r.fs
          /\ cleanW' = [cleanW EXCEPT ![w] =
                [@ EXCEPT !.pc = "loop", !.i = @ + 1,
                          !.results = Append(@, r.result)]]
    /\ UNCHANGED <<removes, now, method, clean_running, clean_abort_flag,
                   clean_ret, 
                   cleanArgs, cleanProgress, cleanCompleted>>

\* _clean_thread, line 156: self.running = False.
CleanFinish(w) ==
    /\ cleanW[w].pc = "finish"
    /\ clean_running' = FALSE
    /\ cleanW' = [cleanW EXCEPT ![w].pc = "complete"]
    /\ UNCHANGED <<fs, removes, faults, now, method, clean_abort_flag,
                   clean_ret, cleanArgs, 
                   cleanProgress, cleanCompleted>>

\* _clean_thread, lines 158-159: complete_callback(results); the invocation
\* is logged with the tasks of the call and the list passed.  The thread ends
\* with this call, whether the callback returns or raises.
CleanComplete(w) ==
    /\ cleanW[w].pc = "complete"
    /\ cleanCompleted' =
          IF cleanW[w].complete_callback = "None" THEN cleanCompleted
          ELSE [cleanCompleted EXCEPT ![w] =
                   Append(@, [tasks |-> cleanW[w].tasks,
                              results |-> cleanW[w].results,
                              aborted |-> cleanW[w].aborted])]
    /\ cleanW' = [cleanW EXCEPT ![w] = CleanEnded("done")]
    /\ UNCHANGED <<fs, removes, faults, now, method, clean_running,
                   clean_abort_flag, clean_ret, 
                   cleanArgs, cleanProgress>>

\* The application calls clean() with the first n task paths.
CleanCall ==
    \E n \in 0..MaxTasks :
       Clean(Tasks(fs, n), cleanArgs.method, cleanArgs.progress,
             cleanArgs.complete)

\* ------------------------------------------- Cleaner._clean_file alone

\* No task has been cleaned.
FileInit ==
    /\ fileOps = <<>>
    /\ creates = 0

\* A CleanTask is made for the i-th path and Cleaner._clean_file(task, m) is
\* applied to it; the invocation is logged with what it met: whether the
\* path existed, and whether the operating system refused the operation.
CleanFileCall(i, m, fails) ==
    /\ Len(fileOps) < MaxOps
    /\ fails => Exists(fs, TaskPath(i))
    /\ LET task == CleanTask(fs, TaskPath(i))
           r == CleanFile(fs, task, m, now, fails)
       IN /\ fs' = r.fs
          /\ fileOps' = Append(fileOps,
                [task |-> task, method |-> m, existed |-> Exists(fs, TaskPath(i)),
                 raised |-> fails, result |-> r.result])
    /\ UNCHANGED <<removes, faults, now, method, clean_running,
                   clean_abort_flag, clean_ret, cleanArgs, cleanW,
                   cleanProgress, cleanCompleted, creates>>

\* Another process creates a file of the given size at the i-th path.
Recreate(i, size) ==
    /\ creates < MaxCreates
    /\ ~Exists(fs, TaskPath(i))
    /\ fs' = [q \in DOMAIN fs \cup {TaskPath(i)} |->
                IF q = TaskPath(i) THEN [kind |-> "file", size |-> size]
                ELSE fs[q]]
    /\ creates' = creates + 1
    /\ UNCHANGED <<removes, faults, now, method, clean_running,
                   clean_abort_flag, clean_ret, cleanArgs, cleanW,
                   cleanProgress, cleanCompleted, fileOps>>

\* The clock reaches the next second.
Tick ==
    /\ now < MaxNow
    /\ now' = now + 1
    /\ UNCHANGED <<fs, removes, faults, method, clean_running,
                   clean_abort_flag, clean_ret, cleanArgs, cleanW,
                   cleanProgress, cleanCompleted, fileOps, creates>>

\* ------------------------------------------------------------ Analyzer

\* What the analysed path is: nothing, a single file, or a directory that
\* holds MaxEntries files.
AnalyzePaths == {"missing", "file", "dir"}

\* str.lower() on one character, and on a string.
LowerChar(c) == CASE c = "A" -> "a" [] c = "B" -> "b" [] c = "T" -> "t"
                  [] c = "L" -> "l" [] OTHER -> c
Lower(s) == [i \in DOMAIN s |-> LowerChar(s[i])]

\* os.path.splitext(name)[1]: the part from the last dot on, empty when there
\* is no dot or only dots lead up to it.
Splitext(name) ==
    LET dots == {i \in DOMAIN name : name[i] = "."}
        last == CHOOSE i \in dots : \A j \in dots : j <= i
    IN IF dots = {} \/ \A j \in 1..(last - 1) : name[j] = "."
       THEN <<>>
       ELSE SubSeq(name, last, Len(name))

\* The size of every file.
FileSize == 1

\* AnalyzeResult.__init__.
AnalyzeResult ==
    [root_item |-> "None", file_count |-> 0, dir_count |-> 0, total_size |-> 0,
     file_types |-> <<>>]

\* The characters of the file names that have an extension; a name without
\* a dot is kept whole.
Letters(name) ==
    CASE name = "a.txt" -> <<"a", ".", "t", "x", "t">>
      [] name = "file.txt" -> <<"f", "i", "l", "e", ".", "t", "x", "t">>
      [] OTHER -> <<name>>

\* The key of file_types for the files without extension (line 85).
NoExtension == <<"(no extension)">>

\* AnalyzeResult.add_file(path, size), lines 80-86 (the list of the largest
\* files, line 89, is modelled on its own).
add_file(r, path, size) ==
    LET found == Splitext(Letters(path[Len(path)]))
        ext == IF found # <<>> THEN Lower(found) ELSE NoExtension
    IN [r EXCEPT !.file_count = @ + 1,
                 !.total_size = @ + size,
                 !.file_types =
                    [t \in DOMAIN @ \cup {ext} |->
                        IF t = ext
                        THEN (IF t \in DOMAIN @ THEN @[t] ELSE 0) + size
                        ELSE @[t]]]

\* AnalyzeResult.add_dir(path, size).
add_dir(r) == [r EXCEPT !.dir_count = @ + 1]

\* A thread that has not been created (and the frame of one that has ended).
AnalyzeIdleWorker ==
    [pc |-> "idle", path |-> "None", seen |-> 0,
     abort_requested |-> FALSE]  \* (history) abort_analyze() was called for it

\* Analyzer.__init__; whether the application passes callbacks is chosen
\* once.
AnalyzerInit ==
    /\ is_analyzing = FALSE
    /\ aborted = FALSE
    /\ result = 0
    /\ analyze_progress_callback = 0
    /\ analyze_complete_callback = 0
    /\ analyze_ret = "none"
    /\ analyzeCallbacks \in [progress : Callbacks, complete : Callbacks]
    /\ analyzeResults = [k \in AnalyzeWorkers |-> AnalyzeResult]
    /\ analyzeW = [k \in AnalyzeWorkers |-> AnalyzeIdleWorker]
    /\ analyzeCompleted = [k \in AnalyzeWorkers |-> <<>>]
    /\ analyzeProgress = [k \in AnalyzeWorkers |-> <<>>]

\* The threads that have not been created.
AnalyzeFree == {k \in AnalyzeWorkers : analyzeW[k].pc = "idle"}

\* The thread the next accepted analyze_disk() creates; its number also
\* names the callbacks of that call.
NextAnalyzeWorker == CHOOSE k \in AnalyzeFree : \A j \in AnalyzeFree : k <= j

\* The guard of Analyzer.analyze_disk: `if self.is_analyzing: return`.
AnalyzeRefused == is_analyzing

\* Analyzer.analyze_disk(path, max_depth, progress_callback,
\* complete_callback); it returns None whether it starts a thread or not.
AnalyzeDisk(path, progress_callback, complete_callback) ==
    IF AnalyzeRefused
    THEN /\ analyze_ret' = "None"
         /\ UNCHANGED <<is_analyzing, aborted, result,
                        analyze_progress_callback, 
                        analyze_complete_callback, analyzeCallbacks,
                        analyzeResults, analyzeW, analyzeCompleted, analyzeProgress>>
    ELSE /\ AnalyzeFree # {}
         /\ analyze_progress_callback' =
               IF progress_callback = "None" THEN 0 ELSE NextAnalyzeWorker
         /\ analyze_complete_callback' =
               IF complete_callback = "None" THEN 0 ELSE NextAnalyzeWorker
         /\ aborted' = FALSE
         /\ analyzeW' = [analyzeW EXCEPT ![NextAnalyzeWorker] =
               [@ EXCEPT !.pc = "spawned", !.path = path]]
         /\ analyze_ret' = "None"
         /\ UNCHANGED <<is_analyzing, result, analyzeCallbacks, analyzeResults,
                        analyzeCompleted, analyzeProgress>>

\* Analyzer.abort_analyze().
AbortAnalyze ==
    /\ aborted' = TRUE
    /\ analyzeW' = [k \in AnalyzeWorkers |->
          IF analyzeW[k].pc \in {"spawned", "walk", "file"}
          THEN [analyzeW[k] EXCEPT !.abort_requested = TRUE] ELSE analyzeW[k]]
    /\ UNCHANGED <<is_analyzing, result, analyze_progress_callback,
                   analyze_complete_callback, analyze_ret, analyzeCallbacks,
                   analyzeResults, analyzeCompleted, analyzeProgress>>

\* _analyze_thread, lines 253-264: the flag is raised, self.result becomes a
\* new AnalyzeResult, and the path is looked at; a directory gets its root
\* item.
AnalyzeThreadStart(k) ==
    /\ analyzeW[k].pc = "spawned"
    /\ is_analyzing' = TRUE
    /\ result' = k
    /\ analyzeResults' = [analyzeResults EXCEPT ![k] =
          IF analyzeW[k].path = "dir"
          THEN [AnalyzeResult EXCEPT !.root_item = "dir"]
          ELSE AnalyzeResult]
    /\ analyzeW' = [analyzeW EXCEPT ![k].pc =
          CASE analyzeW[k].path = "dir" -> "walk"
            [] analyzeW[k].path = "file" -> "file"
            [] OTHER -> "finally"]
    /\ UNCHANGED <<aborted, analyze_progress_callback,
                   analyze_complete_callback, analyze_ret, analyzeCallbacks,
                   analyzeCompleted, analyzeProgress>>

\* _analyze_thread, lines 267-270: a single file is added to self.result.
AnalyzeSingleFile(k) ==
    /\ analyzeW[k].pc = "file"
    /\ analyzeResults' = [analyzeResults EXCEPT ![result] =
          add_file([@ EXCEPT !.root_item = "file"], <<analyzeW[k].path>>,
                   FileSize)]
    /\ analyzeW' = [analyzeW EXCEPT ![k].pc = "finally"]
    /\ UNCHANGED <<is_analyzing, aborted, result, analyze_progress_callback,
                   analyze_complete_callback, analyze_ret, analyzeCallbacks,
                   analyzeCompleted, analyzeProgress>>

\* Analyzer._update_progress(current_path), lines 344-352, called by thread k:
\* self.analyze_progress_callback, if set, is invoked with the counts of
\* self.result as they are then; the invocation is logged with the callback
\* it reached.  What the callback raises is caught at line 327.
UpdateProgress(k, counted) ==
    IF analyze_progress_callback = 0 THEN analyzeProgress
    ELSE [analyzeProgress EXCEPT ![analyze_progress_callback] =
             Append(@, [by |-> k, result |-> result,
                        file_count |-> counted[result].file_count,
                        dir_count |-> counted[result].dir_count])]

\* _analyze_directory, lines 295-313: the next file of the directory is
\* added to self.result and the progress callback is invoked.
AnalyzeEntry(k) ==
    /\ analyzeW[k].pc = "walk"
    /\ ~aborted
    /\ analyzeW[k].seen < MaxEntries
    /\ analyzeResults' = [analyzeResults EXCEPT ![result] =
          add_file(@, <<analyzeW[k].path, "entry">>, FileSize)]
    /\ analyzeProgress' = UpdateProgress(k, analyzeResults')
    /\ analyzeW' = [analyzeW EXCEPT ![k].seen = @ + 1]
    /\ UNCHANGED <<is_analyzing, aborted, result, analyze_progress_callback,
                   analyze_complete_callback, analyze_ret, analyzeCallbacks,
                   analyzeCompleted>>

\* _analyze_directory, lines 286-297 and 331-335: the walk returns at once
\* when the abort flag is seen, and otherwise counts the directory after its
\* last entry.
AnalyzeWalkEnd(k) ==
    /\ analyzeW[k].pc = "walk"
    /\ aborted \/ analyzeW[k].seen = MaxEntries
    /\ analyzeResults' =
          IF aborted THEN analyzeResults
          ELSE [analyzeResults EXCEPT ![result] = add_dir(@)]
    /\ analyzeW' = [analyzeW EXCEPT ![k].pc = "finally"]
    /\ UNCHANGED <<is_analyzing, aborted, result, analyze_progress_callback,
                   analyze_complete_callback, analyze_ret, analyzeCallbacks,
                   analyzeCompleted, analyzeProgress>>

\* _analyze_thread, lines 256-271: an exception leaves the try block.
AnalyzeEscape(k) ==
    /\ analyzeW[k].pc \in {"walk", "file"}
    /\ analyzeW' = [analyzeW EXCEPT ![k].pc = "finally"]
    /\ UNCHANGED <<is_analyzing, aborted, result, analyze_progress_callback,
                   analyze_complete_callback, analyze_ret, analyzeCallbacks,
                   analyzeResults, analyzeCompleted, analyzeProgress>>

\* _analyze_thread, line 272: self.is_analyzing = False.
AnalyzeFinally(k) ==
    /\ analyzeW[k].pc = "finally"
    /\ is_analyzing' = FALSE
    /\ analyzeW' = [analyzeW EXCEPT ![k].pc = "callback"]
    /\ UNCHANGED <<aborted, result, analyze_progress_callback,
                   analyze_complete_callback, analyze_ret, analyzeCallbacks,
                   analyzeResults, analyzeCompleted, analyzeProgress>>

\* _analyze_thread, lines 273-274: self.analyze_complete_callback, if set, is
\* invoked with self.result; the invocation is logged with the callback it
\* reached.  The thread ends with this call.
AnalyzeComplete(k) ==
    /\ analyzeW[k].pc = "callback"
    /\ analyzeCompleted' =
          IF analyze_complete_callback = 0 THEN analyzeCompleted
          ELSE [analyzeCompleted EXCEPT ![analyze_complete_callback] =
                   Append(@, [by |-> k, result |-> result,
                              value |-> analyzeResults[result],
                              is_analyzing |-> is_analyzing])]
    /\ analyzeW' = [analyzeW EXCEPT ![k] = [AnalyzeIdleWorker EXCEPT !.pc = "done"]]
    /\ UNCHANGED <<is_analyzing, aborted, result, analyze_progress_callback,
                   analyze_complete_callback, analyze_ret, analyzeCallbacks,
                   analyzeResults, analyzeProgress>>

\* The application calls analyze_disk().
AnalyzeCall ==
    \E p \in AnalyzePaths :
       AnalyzeDisk(p, analyzeCallbacks.progress, analyzeCallbacks.complete)

\* ---------------------------------------- Analyzer._analyze_directory

\* The directory that is analysed and what it may hold: root/a.txt,
\* root/sub1/b and root/sub1/sub2/file.txt.
Root == <<"root">>
Sub1 == <<"root", "sub1">>
Sub2 == <<"root", "sub1", "sub2">>
FileTxt == <<"root", "sub1", "sub2", "file.txt">>
Universe == {Root, Root \o <<"a.txt">>, Sub1, Sub1 \o <<"b">>, Sub2, FileTxt}
Directories == {Root, Sub1, Sub2}

\* os.path.dirname(p).
Parent(p) == SubSeq(p, 1, Len(p) - 1)

\* The trees that can be on the disk: path -> [is_dir, size].
Disks ==
    LET shapes == {d \in SUBSET Universe :
                      /\ Root \in d
                      /\ \A p \in d \ {Root} : Parent(p) \in d}
    IN UNION {{dk \in [d -> [is_dir : BOOLEAN, size : 0..MaxSize]] :
                 \A p \in d : /\ dk[p].is_dir = (p \in Directories)
                              /\ dk[p].is_dir => dk[p].size = 0} :
              d \in shapes}

\* The entries os.scandir(directory) yields, line 295.
Entries(dk, directory) == {p \in DOMAIN dk : p # Root /\ Parent(p) = directory}

\* The orders in which os.scandir can yield a set of entries.
Listings(S) ==
    {s \in [1..Cardinality(S) -> S] : \A i, j \in DOMAIN s : s[i] = s[j] => i = j}

\* max_depth = None (analyze_disk, line 215).
NoDepth == -1

\* FileUtils.get_file_size(path): the size, and 0 when the file cannot be
\* read.
GetFileSize(dk, p, fails) == IF fails THEN 0 ELSE dk[p].size

\* DiskItem.__init__, lines 25-30.
DiskItem(path, is_dir, size) ==
    [path |-> path, is_dir |-> is_dir, size |-> size, parent |-> <<>>,
     children |-> <<>>]

\* DiskItem.add_child, lines 39-40, on the items its: parent_item gets the
\* child appended and the child gets its parent.
add_child(its, parent_item, child) ==
    [p \in DOMAIN its \cup {child.path} |->
        IF p = child.path THEN [child EXCEPT !.parent = parent_item]
        ELSE IF p = parent_item
             THEN [its[p] EXCEPT !.children = Append(@, child.path)]
             ELSE its[p]]

\* The frame of one _analyze_directory call.
Frame(directory, current_depth) ==
    [directory |-> directory, current_depth |-> current_depth, pc |-> "enter",
     todo |-> <<>>, dir_size |-> 0]

\* Mutant: the caller does not add the subdirectory's size (line 323 left
\* out).
AfterSubdirForgets(frame, size) == [frame EXCEPT !.todo = Tail(@)]

\* Lines 320-323 in the caller once the recursive call has returned:
\* dir_size takes the subdirectory item's size and the loop moves on.
AfterSubdir(frame, size) ==
    [frame EXCEPT !.dir_size = @ + size, !.todo = Tail(@)]

\* The call stack after the innermost _analyze_directory call returned, the
\* items being its.
Returned(st, its) ==
    LET rest == SubSeq(st, 1, Len(st) - 1)
        dir_item == st[Len(st)].directory
    IN IF rest = <<>> THEN rest
       ELSE [rest EXCEPT ![Len(rest)] = AfterSubdir(@, its[dir_item].size)]

\* Before _analyze_thread runs: nothing analysed yet.
WalkInit ==
    /\ disk \in Disks
    /\ max_depth \in {NoDepth} \cup 0..MaxDepth
    /\ walk_aborted = FALSE
    /\ items = <<>>
    /\ walk_result = AnalyzeResult
    /\ stack = <<>>
    /\ walked = {}
    /\ walk_faulted = FALSE

\* The innermost call.
Top == stack[Len(stack)]

\* _analyze_thread, lines 254-264, for a directory: the root item is made
\* and _analyze_directory(path, root_item, 0, max_depth) is called.
WalkStart ==
    /\ stack = <<>> /\ items = <<>>
    /\ items' = (Root :> DiskItem(Root, TRUE, 0))
    /\ walk_result' = [AnalyzeResult EXCEPT !.root_item = Root]
    /\ stack' = <<Frame(Root, 0)>>
    /\ UNCHANGED <<disk, max_depth, walk_aborted, walked, walk_faulted>>

\* Analyzer.abort_analyze().
WalkAbort ==
    /\ ~walk_aborted
    /\ walk_aborted' = TRUE
    /\ UNCHANGED <<disk, max_depth, items, walk_result, stack, walked,
                   walk_faulted>>

\* Lines 286-290: the call returns at once when the abort flag is set or
\* current_depth is above max_depth.
WalkCut ==
    /\ stack # <<>> /\ Top.pc = "enter"
    /\ \/ walk_aborted
       \/ max_depth # NoDepth /\ Top.current_depth > max_depth
    /\ stack' = Returned(stack, items)
    /\ UNCHANGED <<disk, max_depth, walk_aborted, items, walk_result, walked,
                   walk_faulted>>

\* Lines 292-295: os.scandir lists the directory, in some order; when it
\* raises, lines 337-342 catch it and the call returns.
WalkScandir(raises) ==
    /\ stack # <<>> /\ Top.pc = "enter"
    /\ ~walk_aborted
    /\ max_depth = NoDepth \/ Top.current_depth <= max_depth
    /\ IF raises
       THEN stack' = Returned(stack, items)
       ELSE \E order \in Listings(Entries(disk, Top.directory)) :
               stack' = [stack EXCEPT ![Len(stack)] =
                            [@ EXCEPT !.pc = "loop", !.todo = order]]
    /\ walk_faulted' = (walk_faulted \/ raises)
    /\ UNCHANGED <<disk, max_depth, walk_aborted, items, walk_result, walked>>

\* Line 295 during the loop: the directory iterator raises when the next
\* entry is fetched (the listing fails part-way); lines 337-342 catch it and
\* the call returns, without lines 332-335.
WalkListingRaises ==
    /\ stack # <<>> /\ Top.pc = "loop"
    /\ stack' = Returned(stack, items)
    /\ walk_faulted' = TRUE
    /\ UNCHANGED <<disk, max_depth, walk_aborted, items, walk_result, walked>>

\* Lines 296-297: the abort flag is seen before an entry.
WalkAbortSeen ==
    /\ stack # <<>> /\ Top.pc = "loop" /\ Top.todo # <<>>
    /\ walk_aborted
    /\ stack' = Returned(stack, items)
    /\ UNCHANGED <<disk, max_depth, walk_aborted, items, walk_result, walked,
                   walk_faulted>>

\* Lines 300 and 324-329: looking at the entry raises; the entry is skipped.
WalkEntryRaises ==
    /\ stack # <<>> /\ Top.pc = "loop" /\ Top.todo # <<>>
    /\ ~walk_aborted
    /\ stack' = [stack EXCEPT ![Len(stack)].todo = Tail(@)]
    /\ walk_faulted' = TRUE
    /\ UNCHANGED <<disk, max_depth, walk_aborted, items, walk_result, walked>>

\* Lines 300-313: a file entry is sized, added to dir_size, made a child of
\* parent_item and added to the result.
WalkFile(fails) ==
    /\ stack # <<>> /\ Top.pc = "loop" /\ Top.todo # <<>>
    /\ ~walk_aborted
    /\ LET item == Head(Top.todo)
           file_size == GetFileSize(disk, item, fails)
       IN /\ ~disk[item].is_dir
          /\ items' = add_child(items, Top.directory,
                                DiskItem(item, FALSE, file_size))
          /\ walk_result' = add_file(walk_result, item, file_size)
          /\ stack' = [stack EXCEPT ![Len(stack)] =
                          [@ EXCEPT !.dir_size = @ + file_size,
                                    !.todo = Tail(@)]]
    /\ walk_faulted' = (walk_faulted \/ fails)
    /\ UNCHANGED <<disk, max_depth, walk_aborted, walked>>

\* Lines 315-320: a directory entry gets its item, the item is made a child
\* of parent_item, and _analyze_directory is called on it one level deeper.
WalkSubdir ==
    /\ stack # <<>> /\ Top.pc = "loop" /\ Top.todo # <<>>
    /\ ~walk_aborted
    /\ LET item == Head(Top.todo)
       IN /\ disk[item].is_dir
          /\ items' = add_child(items, Top.directory, DiskItem(item, TRUE, 0))
          /\ stack' = Append(stack, Frame(item, Top.current_depth + 1))
    /\ UNCHANGED <<disk, max_depth, walk_aborted, walk_result, walked,
                   walk_faulted>>

\* Lines 331-335: after the last entry parent_item.size becomes dir_size,
\* the directory is added to the result, and the call returns.
WalkLeave ==
    /\ stack # <<>> /\ Top.pc = "loop" /\ Top.todo = <<>>
    /\ items' = [items EXCEPT ![Top.directory].size = Top.dir_size]
    /\ walk_result' = add_dir(walk_result)
    /\ walked' = walked \cup {Top.directory}
    /\ stack' = Returned(stack, items')
    /\ UNCHANGED <<disk, max_depth, walk_aborted, walk_faulted>>

\* ------------------------------ AnalyzeResult.largest_files / largest_dirs

\* max_count, the default of _update_largest_files and _update_largest_dirs.
MaxCount == 20

\* The sizes of the files and directories that are added.
Sizes == 0..MaxSize

\* The path of the k-th item of a given size: every path is added once.
ItemPath(size, k) == <<size, k>>

\* Mutant: the appended entry stays at the end (no sort).
InsertLast(sorted, e) == Append(sorted, e)

\* One step of list.sort(key=size, reverse=True): e goes behind the entries
\* that are not smaller, so entries of equal size keep their order.
Insert(sorted, e) ==
    LET k == Cardinality({i \in DOMAIN sorted : sorted[i].size >= e.size})
    IN SubSeq(sorted, 1, k) \o <<e>> \o SubSeq(sorted, k + 1, Len(sorted))

\* list.sort(key=lambda x: x[1], reverse=True), lines 114 and 128.
RECURSIVE SortedDescending(_)
SortedDescending(s) ==
    IF s = <<>> THEN <<>>
    ELSE Insert(SortedDescending(SubSeq(s, 1, Len(s) - 1)), s[Len(s)])

\* AnalyzeResult._update_largest_files(path, size), lines 113-116, on the
\* list l.
update_largest_files(l, path, size) ==
    LET sorted == SortedDescending(Append(l, [path |-> path, size |-> size]))
    IN IF Len(sorted) > MaxCount THEN SubSeq(sorted, 1, MaxCount) ELSE sorted

\* AnalyzeResult._update_largest_dirs(path, size), lines 127-130, on the
\* list l.
update_largest_dirs(l, path, size) ==
    LET sorted == SortedDescending(Append(l, [path |-> path, size |-> size]))
    IN IF Len(sorted) > MaxCount THEN SubSeq(sorted, 1, MaxCount) ELSE sorted

\* AnalyzeResult.__init__, lines 69-70.
LargestInit ==
    /\ largest_files = <<>>
    /\ largest_dirs = <<>>
    /\ seen_files = [s \in Sizes |-> 0]
    /\ seen_dirs = [s \in Sizes |-> 0]

\* Items added so far, given how many of each size were added.
RECURSIVE Total(_, _)
Total(seen, S) ==
    IF S = {} THEN 0
    ELSE LET s == CHOOSE x \in S : TRUE IN seen[s] + Total(seen, S \ {s})

\* AnalyzeResult.add_file(path, size), line 89.
LargestAddFile(size) ==
    /\ Total(seen_files, Sizes) < MaxAdds
    /\ largest_files' = update_largest_files(
          largest_files, ItemPath(size, seen_files[size] + 1), size)
    /\ seen_files' = [seen_files EXCEPT ![size] = @ + 1]
    /\ UNCHANGED <<largest_dirs, seen_dirs>>

\* AnalyzeResult.add_dir(path, size), line 102.
LargestAddDir(size) ==
    /\ Total(seen_dirs, Sizes) < MaxAdds
    /\ largest_dirs' = update_largest_dirs(
          largest_dirs, ItemPath(size, seen_dirs[size] + 1), size)
    /\ seen_dirs' = [seen_dirs EXCEPT ![size] = @ + 1]
    /\ UNCHANGED <<largest_files, seen_files>>

\* ------------------------------------------------ Scanner._process_file

\* None, for the optional numbers max_size, min_age and min_age_days.
Unset == -1

\* Python's truth value of an optional number: None and 0 are false.
Truthy(x) == x # Unset /\ x # 0

\* The file names of the scanned directory and the glob patterns in use, as
\* sequences of characters: a.t, B.T, a.l and *.t, a*.
FileNames == {<<"a", ".", "t">>, <<"B", ".", "T">>, <<"a", ".", "l">>}
Patterns == {<<"*", ".", "t">>, <<"a", "*">>}
Extensions == {<<".", "t">>}

\* Mutant: a pattern matches every name.
MatchAnything(filename, pattern) == TRUE

\* Scanner._match_pattern(filename, pattern), lines 621-626: the pattern is
\* turned into an anchored regular expression ('.' literal, '*' any run of
\* characters, '?' one character) and matched ignoring case.  No other
\* character is escaped: a '$' of the pattern stays the regular expression's
\* end-of-string assertion.
RECURSIVE match_pattern(_, _)
match_pattern(filename, pattern) ==
    IF pattern = <<>> THEN filename = <<>>
    ELSE LET h == Head(pattern)
         IN CASE h = "*" ->
                   \E k \in 0..Len(filename) :
                      match_pattern(SubSeq(filename, k + 1, Len(filename)),
                                    Tail(pattern))
              [] h = "?" ->
                   /\ filename # <<>>
                   /\ match_pattern(Tail(filename), Tail(pattern))
              [] h = "$" ->
                   /\ filename = <<>>
                   /\ match_pattern(filename, Tail(pattern))
              [] OTHER ->
                   /\ filename # <<>>
                   /\ LowerChar(Head(filename)) = LowerChar(h)
                   /\ match_pattern(Tail(filename), Tail(pattern))

\* any(self._match_pattern(filename, p) for p in patterns).
AnyMatch(filename, patterns) ==
    \E i \in DOMAIN patterns : match_pattern(filename, patterns[i])

\* ScanFilter.__init__, lines 29-33.
ScanFilter(min_size, max_size, min_age_days, extensions, exclude_exts) ==
    [is_none |-> FALSE, min_size |-> min_size, max_size |-> max_size,
     min_age_days |-> min_age_days, extensions |-> extensions,
     exclude_exts |-> exclude_exts]

\* filter_obj = None (scan, line 422).
NoFilter == [ScanFilter(0, Unset, Unset, <<>>, <<>>) EXCEPT !.is_none = TRUE]

\* The elements of a list.
Elements(s) == {s[i] : i \in DOMAIN s}

\* ScanFilter.match_file(file_path, file_size, mod_time), lines 48-71, for a
\* file that is age_days whole days old.
match_file(f, filename, file_size, age_days) ==
    IF f.min_size > 0 /\ file_size < f.min_size THEN FALSE
    ELSE IF Truthy(f.max_size) /\ file_size > f.max_size THEN FALSE
    ELSE IF Truthy(f.min_age_days) /\ age_days < f.min_age_days THEN FALSE
    ELSE IF f.extensions # <<>> \/ f.exclude_exts # <<>>
    THEN LET ext == Lower(Splitext(filename))
         IN IF f.extensions # <<>> /\ ext \notin Elements(f.extensions)
            THEN FALSE
            ELSE IF f.exclude_exts # <<>> /\ ext \in Elements(f.exclude_exts)
            THEN FALSE
            ELSE TRUE
    ELSE TRUE

\* ScanTarget.__init__ followed by add_pattern, add_exclude_pattern,
\* set_size_filter and set_age_filter, lines 92-137.
ScanTargetRule(patterns, exclude_patterns, min_size, max_size, min_age) ==
    [patterns |-> patterns, exclude_patterns |-> exclude_patterns,
     min_size |-> min_size, max_size |-> max_size, min_age |-> min_age]

\* ScanResult.__init__, lines 162-167.
ScanResultObject ==
    [files |-> <<>>, file_types |-> <<>>, total_size |-> 0, file_info |-> <<>>]

\* Mutant: add_file leaves total_size alone.
add_scanned_file_uncounted(r, file_path, file_size, file_type, age_days) ==
    [r EXCEPT !.files = Append(@, file_path),
              !.file_info =
                 [p \in DOMAIN r.file_info \cup {file_path} |->
                     IF p = file_path
                     THEN [size |-> file_size, type |-> file_type,
                           age_days |-> age_days]
                     ELSE r.file_info[p]]]

\* ScanResult.add_file(file_path, file_size, file_type, mod_time), lines
\* 187-202.
add_scanned_file(r, file_path, file_size, file_type, age_days) ==
    [files |-> Append(r.files, file_path),
     total_size |-> r.total_size + file_size,
     file_types |->
        IF file_type \in DOMAIN r.file_types
        THEN [r.file_types EXCEPT ![file_type] =
                 [count |-> @.count + 1, size |-> @.size + file_size]]
        ELSE [t \in DOMAIN r.file_types \cup {file_type} |->
                 IF t = file_type THEN [count |-> 1, size |-> file_size]
                 ELSE r.file_types[t]],
     file_info |->
        [p \in DOMAIN r.file_info \cup {file_path} |->
            IF p = file_path
            THEN [size |-> file_size, type |-> file_type, age_days |-> age_days]
            ELSE r.file_info[p]]]

\* Lines 596-600: the file type is the lowered extension without its dot.
FileType(filename) ==
    LET file_ext == Lower(Splitext(filename))
    IN IF file_ext = <<>> THEN <<>> ELSE Tail(file_ext)

\* Scanner._process_file(target, file_path, result, filter_obj), lines
\* 564-607, for a file of the given name, size and age; statRaises: os.stat
\* fails. The value is the ScanResult afterwards.
process_file(target, filename, file_size, age_days, r, f, statRaises) ==
    LET is_match == IF target.patterns = <<>> THEN TRUE
                    ELSE AnyMatch(filename, target.patterns)
        is_excluded == /\ target.exclude_patterns # <<>>
                       /\ AnyMatch(filename, target.exclude_patterns)
    IN IF is_excluded THEN r
       ELSE IF ~is_match THEN r
       ELSE IF statRaises THEN r
       ELSE IF ~f.is_none /\ ~match_file(f, filename, file_size, age_days) THEN r
       ELSE IF Truthy(target.min_age) /\ age_days < target.min_age THEN r
       ELSE add_scanned_file(r, filename, file_size, FileType(filename), age_days)

\* Lists without repetition of at most n elements of S (add_pattern keeps a
\* pattern once).
ListsOf(S, n) ==
    UNION {{s \in [1..k -> S] : \A i, j \in 1..k : s[i] = s[j] => i = j} :
           k \in 0..n}

\* The rules a target can have and the filters a scan can be given.
ScanTargetRules ==
    {ScanTargetRule(p, e, lo, hi, age) :
        p \in ListsOf(Patterns, MaxPatterns), e \in ListsOf(Patterns, 1),
        lo \in 0..MaxSize, hi \in {Unset} \cup 0..MaxSize,
        age \in {Unset} \cup 1..MaxAge}
ScanFilters ==
    {NoFilter} \cup
    {ScanFilter(lo, hi, age, x, y) :
        lo \in 0..MaxSize, hi \in {Unset} \cup 0..MaxSize,
        age \in {Unset} \cup 1..MaxAge,
        x \in ListsOf(Extensions, 1), y \in ListsOf(Extensions, 1)}

\* One target, one filter and an empty ScanResult (_scan_target, line 505).
ProcInit ==
    /\ proc_target \in ScanTargetRules
    /\ filter_obj \in ScanFilters
    /\ scan_result = ScanResultObject
    /\ processed = {}

\* A component nobody drives: no rule, no filter.
ProcQuiet ==
    /\ proc_target = ScanTargetRule(<<>>, <<>>, 0, Unset, Unset)
    /\ filter_obj = NoFilter
    /\ scan_result = ScanResultObject
    /\ processed = {}

\* _scan_directory, lines 536-541, hands the next file of the directory to
\* _process_file.
ProcessFile(filename, file_size, age_days, statRaises) ==
    /\ Cardinality(processed) < MaxFiles
    /\ filename \notin processed
    /\ scan_result' = process_file(proc_target, filename, file_size, age_days,
                                   scan_result, filter_obj, statRaises)
    /\ processed' = processed \cup {filename}
    /\ UNCHANGED <<proc_target, filter_obj>>

\* ------------------------------------- _process_file and the age of files

\* Half days in a day: time is counted in half days.
DayTicks == 2

\* Mutant: a started day counts as a whole one.
AgeDaysRoundedUp(t, mod_time) == (t - mod_time + DayTicks - 1) \div DayTicks

\* (datetime.now() - mod_time).days, lines 55 and 591: the whole days
\* between the modification time and the moment t, rounded down (below zero
\* for a file written after t).
AgeDays(t, mod_time) == (t - mod_time) \div DayTicks

\* One target with or without the pattern *.t and a minimum age, a filter
\* with or without a minimum age, and an empty ScanResult.
AgeInit ==
    /\ proc_target \in
          {ScanTargetRule(p, <<>>, 0, Unset, age) :
              p \in ListsOf({<<"*", ".", "t">>}, 1),
              age \in {Unset} \cup 0..(MaxTime \div DayTicks)}
    /\ filter_obj \in
          {NoFilter} \cup
          {ScanFilter(0, Unset, age, <<>>, <<>>) : age \in 1..MaxAge}
    /\ scan_result = ScanResultObject
    /\ processed = {}
    /\ stat_log = {}

\* _scan_directory, lines 536-541, hands a file last modified at mod_time to
\* _process_file at the moment MaxTime.
ProcessAged(filename, file_size, mod_time) ==
    /\ filename \notin processed
    /\ scan_result' = process_file(proc_target, filename, file_size,
                                   AgeDays(MaxTime, mod_time), scan_result,
                                   filter_obj, FALSE)
    /\ processed' = processed \cup {filename}
    /\ stat_log' = stat_log \cup {[filename |-> filename, size |-> file_size,
                                    mod_time |-> mod_time]}
    /\ UNCHANGED <<proc_target, filter_obj>>

\* ------------------------------------- the target list during a scan

\* Scanner.scan(...), with a note of the enabled targets at the moment of
\* the call.
ScanCalled ==
    /\ Scan(scanCallbacks.progress, scanCallbacks.complete)
    /\ scan_called_with' =
          IF ScanRefused THEN scan_called_with
          ELSE [scan_called_with EXCEPT ![NextScanWorker] =
                   EnabledTargets(targets)]

\* ------------------------- Scanner.add_custom_target and _scan_target

\* The directories a target can name; each one that exists holds the files
\* a.t and B.T of one byte.
Dirs == {"d1", "d2"}
DirFiles == <<<<"a", ".", "t">>, <<"B", ".", "T">>>>

\* Mutant: add_custom_target without its os.path.exists test.
add_custom_target_unchecked(ts, path, patterns, exists) ==
    LET target == [path |-> path,
                   rule |-> ScanTargetRule(patterns, <<>>, 0, Unset, Unset)]
    IN [targets |-> Append(ts, target), ret |-> path]

\* Scanner.add_custom_target(name, path, patterns), lines 399-420: the new
\* list and what is returned (the target, named by its path, or None).
add_custom_target(ts, path, patterns, exists) ==
    IF exists
    THEN LET target ==
                [path |-> path,
                 rule |-> ScanTargetRule(IF patterns # <<>> THEN patterns
                                         ELSE <<<<"*">>>>,
                                         <<>>, 0, Unset, Unset)]
         IN [targets |-> Append(ts, target), ret |-> path]
    ELSE [targets |-> ts, ret |-> "None"]

\* Scanner._scan_directory(target, directory, result, filter_obj), lines
\* 531-551, over a directory without subdirectories: every file is handed to
\* _process_file.
RECURSIVE scan_directory(_, _, _)
scan_directory(target, files, r) ==
    IF files = <<>> THEN r
    ELSE scan_directory(target, Tail(files),
            process_file(target.rule, Head(files), 1, 0, r, NoFilter, FALSE))

\* Mutant: a target whose root is missing ends the scan.
scan_target_stops(target, exists, raises) ==
    IF exists THEN [raised |-> FALSE,
                    result |-> scan_directory(target, DirFiles, ScanResultObject)]
    ELSE [raised |-> TRUE, result |-> ScanResultObject]

\* Scanner._scan_target(target, filter_obj), lines 505-516: the ScanResult
\* of the target and whether an exception leaves the method.  raises: the
\* directory cannot be listed (it vanished after the test, or access is
\* denied), which _scan_directory catches at line 549.
scan_target(target, exists, raises) ==
    [raised |-> FALSE,
     result |-> IF exists /\ ~raises
                THEN scan_directory(target, DirFiles, ScanResultObject)
                ELSE ScanResultObject]

RootInit ==
    /\ dirs \in SUBSET Dirs
    /\ custom_targets = <<>>
    /\ custom_calls = <<>>
    /\ root_snapshot = <<>>
    /\ root_results = <<>>

RootQuiet ==
    /\ dirs = {}
    /\ custom_targets = <<>>
    /\ custom_calls = <<>>
    /\ root_snapshot = <<>>
    /\ root_results = <<>>

\* The application calls add_custom_target(name, path, patterns).
AddCustomTarget(path, patterns) ==
    /\ Len(custom_calls) < MaxCalls
    /\ LET r == add_custom_target(custom_targets, path, patterns, path \in dirs)
       IN /\ custom_targets' = r.targets
          /\ custom_calls' = Append(custom_calls,
                [path |-> path, existed |-> path \in dirs, ret |-> r.ret])
    /\ UNCHANGED <<dirs, root_snapshot, root_results>>

\* Another process removes a directory.
RemoveDir(path) ==
    /\ path \in dirs
    /\ dirs' = dirs \ {path}
    /\ UNCHANGED <<custom_targets, custom_calls, root_snapshot, root_results>>

\* _scan_thread, lines 459-461: the results are emptied and the targets of
\* the scan are fixed (all custom targets are enabled).
RootScanStart ==
    /\ root_snapshot = <<>>
    /\ custom_targets # <<>>
    /\ root_snapshot' = custom_targets
    /\ root_results' = <<>>
    /\ UNCHANGED <<dirs, custom_targets, custom_calls>>

\* _scan_thread, lines 464-477: the next target is scanned and its result
\* appended; an exception out of _scan_target would end the thread.
RootScanTarget(raises) ==
    /\ Len(root_results) < Len(root_snapshot)
    /\ \A i \in DOMAIN root_results : ~root_results[i].raised
    /\ LET target == root_snapshot[Len(root_results) + 1]
           r == scan_target(target, target.path \in dirs, raises)
       IN root_results' = Append(root_results,
             [path |-> target.path, existed |-> target.path \in dirs,
              raised |-> r.raised, result |-> r.result])
    /\ UNCHANGED <<dirs, custom_targets, custom_calls, root_snapshot>>

\* ------------------------------------------------------------ SizeUtils

\* Byte counts exceed the integers of the model checker; they are written in
\* base 1024, least significant digit first, without leading zeros.
KB == 1024
Digits == {0, 1, 128, 512, 1023}

\* A number without its leading zeros.
RECURSIVE NumNorm(_)
NumNorm(a) ==
    IF a # <<>> /\ a[Len(a)] = 0 THEN NumNorm(SubSeq(a, 1, Len(a) - 1)) ELSE a

\* a <= b, for numbers of any length.
RECURSIVE NumLeqDigits(_, _)
NumLeqDigits(a, b) ==
    IF a = <<>> THEN TRUE
    ELSE LET n == Len(a)
         IN IF a[n] # b[n] THEN a[n] < b[n]
            ELSE NumLeqDigits(SubSeq(a, 1, n - 1), SubSeq(b, 1, n - 1))
NumLeq(a, b) ==
    LET x == NumNorm(a)
        y == NumNorm(b)
    IN IF Len(x) # Len(y) THEN Len(x) < Len(y) ELSE NumLeqDigits(x, y)

\* a - b - borrow, for a >= b.
RECURSIVE NumSub(_, _, _)
NumSub(a, b, borrow) ==
    IF a = <<>> THEN <<>>
    ELSE LET t == Head(a) - (IF b = <<>> THEN 0 ELSE Head(b)) - borrow
         IN <<(t + KB) % KB>> \o
            NumSub(Tail(a), IF b = <<>> THEN <<>> ELSE Tail(b),
                   IF t < 0 THEN 1 ELSE 0)

\* a * k + carry, for a small k.
RECURSIVE NumMul(_, _, _)
NumMul(a, k, carry) ==
    IF a = <<>> THEN (IF carry = 0 THEN <<>> ELSE <<carry>>)
    ELSE LET t == Head(a) * k + carry
         IN <<t % KB>> \o NumMul(Tail(a), k, t \div KB)

\* 1024^u.
NumPow(u) == [i \in 1..(u + 1) |-> IF i = u + 1 THEN 1 ELSE 0]

\* A sequence backwards.
Reverse(s) == [i \in 1..Len(s) |-> s[Len(s) + 1 - i]]

\* units, line 35, and 10^decimal_places for the default decimal_places = 2.
UnitNames == <<"B", "KB", "MB", "GB", "TB", "PB">>
DecimalScale == 100

\* Lines 37-41: size = float(size_in_bytes) is divided by 1024 while it is
\* at least 1024 and a larger unit is left.  The float is exact: its integer
\* part whole and its fraction frac (in base 1024) are kept apart.
RECURSIVE ScaleToUnit(_, _, _)
ScaleToUnit(whole, frac, unit_index) ==
    IF Len(whole) > 1 /\ unit_index < Len(UnitNames) - 1
    THEN ScaleToUnit(Tail(whole), Append(frac, Head(whole)), unit_index + 1)
    ELSE [whole |-> whole, frac |-> frac, unit_index |-> unit_index]

\* frac * 100, digit by digit from the least significant one: the integer
\* part that is carried out and the digits that remain.
RECURSIVE TimesScale(_, _)
TimesScale(frac, carry) ==
    IF frac = <<>> THEN [carry |-> carry, rest |-> <<>>]
    ELSE LET t == Head(frac) * DecimalScale + carry
             r == TimesScale(Tail(frac), t \div KB)
         IN [carry |-> r.carry, rest |-> <<t % KB>> \o r.rest]

\* '{:.2f}'.format(size): the hundredths of the fraction, rounded to the
\* nearest with a tie going to the even digit.
Hundredths(frac) ==
    LET r == TimesScale(frac, 0)
        half == [i \in 1..Len(frac) |-> IF i = Len(frac) THEN KB \div 2 ELSE 0]
        up == IF NumNorm(r.rest) = NumNorm(half) THEN r.carry % 2 = 1
              ELSE ~NumLeq(r.rest, half)
    IN r.carry + (IF up THEN 1 ELSE 0)

\* SizeUtils.bytes_to_human_readable(size_in_bytes), lines 29-52, for a
\* size >= 0.  The string is given by its parts: the integer part of the
\* number, whether a decimal point and two decimals follow, and the words
\* after the number.  With decimals the unit is appended a second time
\* (line 51: the zeros are not at the end of the string and stay).
bytes_to_human_readable(size) ==
    IF size = <<>>
    THEN [whole |-> 0, point |-> FALSE, decimals |-> 0, words |-> <<"B">>]
    ELSE LET s == ScaleToUnit(size, <<>>, 0)
             unit == UnitNames[s.unit_index + 1]
             int_part == IF Len(s.whole) = 1 THEN s.whole[1]
                         ELSE s.whole[1] + KB * s.whole[2]
             h == Hundredths(s.frac)
         IN IF s.unit_index = 0
            THEN [whole |-> int_part, point |-> FALSE, decimals |-> 0,
                  words |-> <<unit>>]
            ELSE [whole |-> int_part + h \div DecimalScale, point |-> TRUE,
                  decimals |-> h % DecimalScale, words |-> <<unit, unit>>]

\* units, lines 73-89, as powers of 1024 (the names the formatter writes).
Units == [u \in {"B", "KB", "MB", "GB", "TB"} |->
            CASE u = "B" -> 0 [] u = "KB" -> 1 [] u = "MB" -> 2
              [] u = "GB" -> 3 [] u = "TB" -> 4]

\* floor(rem * 1024^u / 100), most significant digit first.
RECURSIVE DivScale(_, _)
DivScale(rem, u) ==
    IF u = 0 THEN <<>>
    ELSE LET t == rem * KB
         IN <<t \div DecimalScale>> \o DivScale(t % DecimalScale, u - 1)

\* SizeUtils.human_readable_to_bytes(size_str), lines 66-111, for a string
\* made of a number and words: the number and the first word are matched
\* (line 94), and int(size_val * units[unit]) is returned, or int(size_val)
\* when the unit is not in the table (line 105).
human_readable_to_bytes(str) ==
    LET unit == str.words[1]
        whole == NumNorm(<<str.whole % KB, str.whole \div KB>>)
    IN IF unit \in DOMAIN Units
       THEN NumNorm(Reverse(DivScale(str.decimals, Units[unit])) \o whole)
       ELSE whole

\* The byte counts below 2^53, which float() represents exactly.
ByteCounts ==
    {s \in UNION {[1..k -> Digits] : k \in 0..MaxDigits} :
        /\ s = NumNorm(s)
        /\ Len(s) >= 6 => Len(s) = 6 /\ s[6] < 8}

NoString == [whole |-> 0, point |-> FALSE, decimals |-> 0, words |-> <<>>]

SizeInit ==
    /\ size_in_bytes \in ByteCounts
    /\ size_str = NoString
    /\ size_out = <<>>
    /\ size_pc = "in"

SizeQuiet ==
    /\ size_in_bytes = <<>>
    /\ size_str = NoString
    /\ size_out = <<>>
    /\ size_pc = "in"

\* The caller formats the byte count ...
FormatSize ==
    /\ size_pc = "in"
    /\ size_str' = bytes_to_human_readable(size_in_bytes)
    /\ size_pc' = "str"
    /\ UNCHANGED <<size_in_bytes, size_out>>

\* ... and parses the string.
ParseSize ==
    /\ size_pc = "str"
    /\ size_out' = human_readable_to_bytes(size_str)
    /\ size_pc' = "out"
    /\ UNCHANGED <<size_in_bytes, size_str>>

\* ------------------------------------------- Cleaner._secure_delete

\* passes (line 215) and the largest write, 1024 * 1024 bytes (line 241).
Passes == 3
ChunkLimit == 1024 * 1024

\* The sizes of the files that are deleted.
SecureSizes == {0, 1, ChunkLimit, ChunkLimit + 1, 2 * ChunkLimit}

\* Mutant: the first two patterns change places.
PassPatternSwapped(p) == CASE p = 0 -> 0 [] p = 1 -> 255 [] OTHER -> 170

\* Lines 231-237: the byte of pass p, 0xFF, 0x00, then 0xAA.
PassPattern(p) == CASE p = 0 -> 255 [] p = 1 -> 0 [] OTHER -> 170

\* Mutant: an exception of the overwrite is swallowed and nothing else is
\* done.
OnOverwriteErrorIgnored == "returned"

\* Lines 256-258: an exception of the try block leads to the plain
\* os.remove of the except clause.
OnOverwriteError == "fallback"

Min(a, b) == IF a <= b THEN a ELSE b

SecureInit ==
    /\ sd_exists = TRUE
    /\ sd_size \in SecureSizes
    /\ sd_pc = "getsize"
    /\ sd_locals = [file_size |-> 0, p |-> 0, bytes_left |-> 0, pos |-> 0]
    /\ sd_log = <<>>
    /\ sd_faulted = FALSE

SecureQuiet ==
    /\ sd_exists = TRUE
    /\ sd_size = 0
    /\ sd_pc = "getsize"
    /\ sd_locals = [file_size |-> 0, p |-> 0, bytes_left |-> 0, pos |-> 0]
    /\ sd_log = <<>>
    /\ sd_faulted = FALSE

\* A statement of the try block raises: control goes to the except clause.
SdRaise ==
    /\ sd_pc' = OnOverwriteError
    /\ sd_faulted' = TRUE
    /\ UNCHANGED <<sd_exists, sd_size, sd_locals, sd_log>>

\* Line 225: file_size = os.path.getsize(file_path).
SdGetSize(raises) ==
    /\ sd_pc = "getsize"
    /\ IF raises THEN SdRaise
       ELSE /\ sd_locals' = [sd_locals EXCEPT !.file_size = sd_size]
            /\ sd_pc' = "open"
            /\ UNCHANGED <<sd_exists, sd_size, sd_log, sd_faulted>>

\* Line 228: open(file_path, "r+b"); with three passes to make, the first
\* begins.
SdOpen(raises) ==
    /\ sd_pc = "open"
    /\ IF raises THEN SdRaise
       ELSE /\ sd_locals' = [sd_locals EXCEPT !.p = 0]
            /\ sd_pc' = "seek"
            /\ UNCHANGED <<sd_exists, sd_size, sd_log, sd_faulted>>

\* Lines 240-242: f.seek(0), and the bytes of the pass are still to write.
SdSeek(raises) ==
    /\ sd_pc = "seek"
    /\ IF raises THEN SdRaise
       ELSE /\ sd_locals' = [sd_locals EXCEPT !.pos = 0,
                                               !.bytes_left = sd_locals.file_size]
            /\ sd_log' = Append(sd_log, [op |-> "seek", pass |-> sd_locals.p,
                                         offset |-> 0, size |-> 0, pattern |-> 0])
            /\ sd_pc' = "write"
            /\ UNCHANGED <<sd_exists, sd_size, sd_faulted>>

\* Lines 244-247: one turn of the loop writes min(bytes_left, chunk_size)
\* bytes of the pattern; with nothing left the loop ends.
SdWrite(raises) ==
    /\ sd_pc = "write"
    /\ IF sd_locals.bytes_left > 0
       THEN IF raises THEN SdRaise
            ELSE LET chunk_size == Min(sd_locals.file_size, ChunkLimit)
                     write_size == Min(sd_locals.bytes_left, chunk_size)
                 IN /\ sd_log' = Append(sd_log,
                          [op |-> "write", pass |-> sd_locals.p,
                           offset |-> sd_locals.pos, size |-> write_size,
                           pattern |-> PassPattern(sd_locals.p)])
                    /\ sd_locals' = [sd_locals EXCEPT
                                       !.pos = @ + write_size,
                                       !.bytes_left = @ - write_size]
                    /\ UNCHANGED <<sd_exists, sd_size, sd_pc, sd_faulted>>
       ELSE /\ ~raises
            /\ sd_pc' = "flush"
            /\ UNCHANGED <<sd_exists, sd_size, sd_locals, sd_log, sd_faulted>>

\* Line 250: f.flush().
SdFlush(raises) ==
    /\ sd_pc = "flush"
    /\ IF raises THEN SdRaise
       ELSE /\ sd_log' = Append(sd_log, [op |-> "flush", pass |-> sd_locals.p,
                                         offset |-> 0, size |-> 0, pattern |-> 0])
            /\ sd_pc' = "fsync"
            /\ UNCHANGED <<sd_exists, sd_size, sd_locals, sd_faulted>>

\* Line 251: os.fsync(f.fileno()); the next pass begins, or the file is
\* closed after the last one.
SdFsync(raises) ==
    /\ sd_pc = "fsync"
    /\ IF raises THEN SdRaise
       ELSE /\ sd_log' = Append(sd_log, [op |-> "fsync", pass |-> sd_locals.p,
                                         offset |-> 0, size |-> 0, pattern |-> 0])
            /\ sd_locals' = [sd_locals EXCEPT !.p = @ + 1]
            /\ sd_pc' = IF sd_locals.p + 1 < Passes THEN "seek" ELSE "remove"
            /\ UNCHANGED <<sd_exists, sd_size, sd_faulted>>

\* Line 254: os.remove(file_path) after the passes.
SdRemove(raises) ==
    /\ sd_pc = "remove"
    /\ IF raises THEN SdRaise
       ELSE /\ sd_exists' = FALSE
            /\ sd_log' = Append(sd_log, [op |-> "remove", pass |-> Passes,
                                         offset |-> 0, size |-> 0, pattern |-> 0])
            /\ sd_pc' = "returned"
            /\ UNCHANGED <<sd_size, sd_locals, sd_faulted>>

\* Line 258: os.remove(file_path) in the except clause; what it raises
\* leaves _secure_delete and makes _clean_file return a failed CleanResult
\* (lines 211-213).
SdFallback(raises) ==
    /\ sd_pc = "fallback"
    /\ sd_log' = Append(sd_log, [op |-> "plain remove", pass |-> sd_locals.p,
                                 offset |-> 0, size |-> 0, pattern |-> 0])
    /\ sd_exists' = IF raises THEN sd_exists ELSE FALSE
    /\ sd_pc' = IF raises THEN "raised" ELSE "returned"
    /\ UNCHANGED <<sd_size, sd_locals, sd_faulted>>

\* ------------------------------------------ Scanner._match_pattern alone

\* The characters of file names and of patterns.
NameChars == {"a", "B", ".", "$"}
PatternChars == {"a", "b", ".", "*", "?", "$"}

\* The strings of at most n characters of S.
Strings(S, n) == UNION {[1..k -> S] : k \in 0..n}

GlobInit ==
    /\ glob_filename \in Strings(NameChars, MaxName)
    /\ glob_pattern \in Strings(PatternChars, MaxName)
    /\ glob_result = "none"

GlobQuiet ==
    /\ glob_filename = <<>>
    /\ glob_pattern = <<>>
    /\ glob_result = "none"

\* _process_file asks whether the name matches the pattern (lines 568, 572).
MatchPattern ==
    /\ glob_result = "none"
    /\ glob_result' = IF match_pattern(glob_filename, glob_pattern)
                      THEN "True" ELSE "False"
    /\ UNCHANGED <<glob_filename, glob_pattern>>

\* ------------------------------- Scanner._scan_directory, entry by entry

\* The scanned tree in the order os.listdir gives it: a.t, the directory
\* sub with B.T and a.l in it, then b.t.
EntryTree ==
    <<[name |-> <<"a", ".", "t">>, depth |-> 0, is_dir |-> FALSE],
      [name |-> <<"s", "u", "b">>, depth |-> 0, is_dir |-> TRUE],
      [name |-> <<"B", ".", "T">>, depth |-> 1, is_dir |-> FALSE],
      [name |-> <<"a", ".", "l">>, depth |-> 1, is_dir |-> FALSE],
      [name |-> <<"b", ".", "t">>, depth |-> 0, is_dir |-> FALSE]>>

\* What an entry can meet: nothing, an OSError (PermissionError and
\* FileNotFoundError are OSErrors), or an exception of another class such as
\* the ValueError of datetime.fromtimestamp or the re.error of a pattern.
EntryKinds == {"none", "OSError", "ValueError"}

\* The except clauses of lines 546, 549 and 605: (PermissionError, OSError).
Caught(kind) == kind = "OSError"

\* The first entry after position i that is less deep than d + 1: where the
\* loop of depth d goes on after a subdirectory, and where the loop of the
\* parent goes on after a loop of depth d + 1 is left.
NextAtDepth(i, d) ==
    LET later == {j \in (i + 1)..Len(EntryTree) : EntryTree[j].depth <= d}
    IN IF later = {} THEN Len(EntryTree) + 1
       ELSE CHOOSE j \in later : \A k \in later : j <= k

EntryInit ==
    /\ ent_target \in {ScanTargetRule(<<p>>, <<>>, 0, Unset, Unset) :
                          p \in {<<"*">>, <<"*", ".", "t">>}}
    /\ ent_pos = 1
    /\ ent_pc = "check"
    /\ ent_result = ScanResultObject
    /\ ent_kinds = [i \in DOMAIN EntryTree |-> "unvisited"]
    /\ ent_abort = FALSE
    /\ ent_abort_at = Unset

EntryQuiet ==
    /\ ent_target = ScanTargetRule(<<>>, <<>>, 0, Unset, Unset)
    /\ ent_pos = 1
    /\ ent_pc = "check"
    /\ ent_result = ScanResultObject
    /\ ent_kinds = [i \in DOMAIN EntryTree |-> "unvisited"]
    /\ ent_abort = FALSE
    /\ ent_abort_at = Unset

\* Scanner.abort_scan() during the scan.
EntryAbort ==
    /\ ent_pc # "returned"
    /\ ~ent_abort
    /\ ent_abort' = TRUE
    /\ ent_abort_at' = Len(ent_result.files)
    /\ UNCHANGED <<ent_target, ent_pos, ent_pc, ent_result, ent_kinds>>

\* Mutant: the loop does not look at the flag.
EntryCheckIgnoresAbort ==
    /\ ent_pc = "check"
    /\ IF ent_pos > Len(EntryTree)
       THEN ent_pc' = "returned" /\ ent_pos' = ent_pos
       ELSE ent_pc' = "process" /\ ent_pos' = ent_pos
    /\ UNCHANGED <<ent_target, ent_result, ent_kinds, ent_abort, ent_abort_at>>

\* Lines 536-538: the loop takes the next entry and looks at the flag; when
\* it is set the loop is left and the caller's loop goes on.  After the
\* last entry _scan_target returns the result.
EntryCheck ==
    /\ ent_pc = "check"
    /\ IF ent_pos > Len(EntryTree)
       THEN ent_pc' = "returned" /\ ent_pos' = ent_pos
       ELSE IF ent_abort
       THEN /\ ent_pos' = NextAtDepth(ent_pos, EntryTree[ent_pos].depth - 1)
            /\ ent_pc' = "check"
       ELSE ent_pc' = "process" /\ ent_pos' = ent_pos
    /\ UNCHANGED <<ent_target, ent_result, ent_kinds, ent_abort, ent_abort_at>>

\* Lines 540-551 for one entry.  A file is handed to _process_file, a
\* directory is listed and walked.  An OSError is caught and the loop goes
\* on with the next entry (for a directory that cannot be listed, with the
\* entry after it); any other exception passes every except clause of
\* _process_file and _scan_directory and ends the walk in _scan_target
\* (lines 511-512), which returns the result as it is.
EntryProcess(kind) ==
    /\ ent_pc = "process"
    /\ ent_kinds' = [ent_kinds EXCEPT ![ent_pos] = kind]
    /\ LET e == EntryTree[ent_pos]
       IN IF kind # "none" /\ ~Caught(kind)
          THEN /\ ent_pc' = "returned"
               /\ UNCHANGED <<ent_pos, ent_result>>
          ELSE /\ ent_pc' = "check"
               /\ ent_pos' = IF e.is_dir /\ kind # "none"
                             THEN NextAtDepth(ent_pos, e.depth)
                             ELSE ent_pos + 1
               /\ ent_result' =
                     IF e.is_dir \/ kind # "none" THEN ent_result
                     ELSE process_file(ent_target, e.name, 1, 0, ent_result,
                                       NoFilter, FALSE)
    /\ UNCHANGED <<ent_target, ent_abort, ent_abort_at>>

\* ------------------------------------------------------- specifications

\* A component nobody drives stays as constructed.
ScannerQuiet ==
    /\ ScannerInit
    /\ scanCallbacks = [progress |-> "None", complete |-> "None"]

CleanerQuiet ==
    /\ CleanerInit
    /\ cleanArgs = [method |-> "None", progress |-> "None", complete |-> "None"]

AnalyzerQuiet ==
    /\ AnalyzerInit
    /\ analyzeCallbacks = [progress |-> "None", complete |-> "None"]

WalkQuiet ==
    /\ WalkInit
    /\ disk = (Root :> [is_dir |-> TRUE, size |-> 0])
    /\ max_depth = NoDepth

\* The components other than c are as constructed ...
OthersQuiet(c) ==
    /\ IF c \in {"scan", "targets"} THEN TRUE ELSE ScannerQuiet
    /\ IF c = "clean" THEN TRUE ELSE CleanerQuiet
    /\ IF c = "file" THEN TRUE ELSE FileInit
    /\ IF c = "analyze" THEN TRUE ELSE AnalyzerQuiet
    /\ IF c = "walk" THEN TRUE ELSE WalkQuiet
    /\ IF c = "largest" THEN TRUE ELSE LargestInit
    /\ IF c \in {"proc", "age"} THEN TRUE ELSE ProcQuiet
    /\ IF c = "age" THEN TRUE ELSE stat_log = {}
    /\ IF c = "targets" THEN TRUE ELSE scan_called_with = [w \in ScanWorkers |-> <<>>]
    /\ IF c = "root" THEN TRUE ELSE RootQuiet
    /\ IF c = "size" THEN TRUE ELSE SizeQuiet
    /\ IF c = "secure" THEN TRUE ELSE SecureQuiet
    /\ IF c = "glob" THEN TRUE ELSE GlobQuiet
    /\ IF c = "entry" THEN TRUE ELSE EntryQuiet
    /\ IF c = "leak" THEN TRUE ELSE driven = "none"

\* ... and a step of component c leaves them alone.
OthersIdle(c) ==
    /\ IF c \in {"scan", "targets"} THEN TRUE ELSE UNCHANGED scanVars
    /\ IF c \in {"clean", "file"} THEN TRUE ELSE UNCHANGED cleanVars
    /\ IF c = "file" THEN TRUE ELSE UNCHANGED fileVars
    /\ IF c = "analyze" THEN TRUE ELSE UNCHANGED analyzeVars
    /\ IF c = "walk" THEN TRUE ELSE UNCHANGED walkVars
    /\ IF c = "largest" THEN TRUE ELSE UNCHANGED largestVars
    /\ IF c \in {"proc", "age"} THEN TRUE ELSE UNCHANGED procVars
    /\ IF c = "age" THEN TRUE ELSE UNCHANGED ageVars
    /\ IF c = "targets" THEN TRUE ELSE UNCHANGED snapVars
    /\ IF c = "root" THEN TRUE ELSE UNCHANGED rootVars
    /\ IF c = "size" THEN TRUE ELSE UNCHANGED sizeVars
    /\ IF c = "secure" THEN TRUE ELSE UNCHANGED secureVars
    /\ IF c = "glob" THEN TRUE ELSE UNCHANGED globVars
    /\ IF c = "entry" THEN TRUE ELSE UNCHANGED entryVars
    /\ IF c = "leak" THEN TRUE ELSE UNCHANGED leakVars

\* The scanner with a caller that adds targets, scans and aborts at any
\* moment.
ScanInit == ScannerInit /\ OthersQuiet("scan")

ScanNext ==
    \/ (\E e \in BOOLEAN : AddTarget(e)) /\ OthersIdle("scan")
    \/ Scan(scanCallbacks.progress, scanCallbacks.complete)
          /\ OthersIdle("scan")
    \/ AbortScan /\ OthersIdle("scan")
    \/ (\E w \in ScanWorkers : ScanThreadStart(w))
          /\ OthersIdle("scan")
    \/ (\E w \in ScanWorkers : ScanLoopExit(w))
          /\ OthersIdle("scan")
    \/ (\E w \in ScanWorkers, r \in BOOLEAN : ScanBeginTarget(w, r))
          /\ OthersIdle("scan")
    \/ (\E w \in ScanWorkers : ScanEndWalk(w))
          /\ OthersIdle("scan")
    \/ (\E w \in ScanWorkers, r \in BOOLEAN : ScanAfterWalk(w, r))
          /\ OthersIdle("scan")
    \/ (\E w \in ScanWorkers : ScanFinish(w))
          /\ OthersIdle("scan")
    \/ (\E w \in ScanWorkers : ScanComplete(w))
          /\ OthersIdle("scan")

ScanSpec == ScanInit /\ [][ScanNext]_vars

\* The cleaner with a caller that cleans the first n task paths and aborts
\* at any moment, while other processes remove files.
CleanInit == CleanerInit /\ OthersQuiet("clean")

CleanNext ==
    \/ CleanCall /\ OthersIdle("clean")
    \/ AbortClean /\ OthersIdle("clean")
    \/ (\E i \in 1..MaxTasks : ExternalRemove(TaskPath(i)))
          /\ OthersIdle("clean")
    \/ (\E w \in CleanWorkers : CleanLoopExit(w))
          /\ OthersIdle("clean")
    \/ (\E w \in CleanWorkers, r \in BOOLEAN : CleanBeginTask(w, r))
          /\ OthersIdle("clean")
    \/ (\E w \in CleanWorkers, f \in BOOLEAN : CleanTaskStep(w, f))
          /\ OthersIdle("clean")
    \/ (\E w \in CleanWorkers : CleanFinish(w))
          /\ OthersIdle("clean")
    \/ (\E w \in CleanWorkers : CleanComplete(w))
          /\ OthersIdle("clean")

CleanSpec == CleanInit /\ [][CleanNext]_vars

\* _clean_file applied to single tasks with any method, between files that
\* come back and a clock that advances.
FileSpecInit == FileInit /\ OthersQuiet("file")

FileNext ==
    \/ (\E i \in 1..MaxTasks, m \in Methods, f \in BOOLEAN :
           CleanFileCall(i, m, f)) /\ OthersIdle("file")
    \/ (\E i \in 1..MaxTasks, n \in 0..MaxSize : Recreate(i, n))
          /\ OthersIdle("file")
    \/ Tick /\ OthersIdle("file")

FileSpec == FileSpecInit /\ [][FileNext]_vars

\* The analyzer with a caller that analyses and aborts at any moment.
AnalyzeInit == AnalyzerInit /\ OthersQuiet("analyze")

AnalyzeNext ==
    \/ AnalyzeCall /\ OthersIdle("analyze")
    \/ AbortAnalyze /\ OthersIdle("analyze")
    \/ (\E k \in AnalyzeWorkers : AnalyzeThreadStart(k))
          /\ OthersIdle("analyze")
    \/ (\E k \in AnalyzeWorkers : AnalyzeSingleFile(k))
          /\ OthersIdle("analyze")
    \/ (\E k \in AnalyzeWorkers : AnalyzeEntry(k))
          /\ OthersIdle("analyze")
    \/ (\E k \in AnalyzeWorkers : AnalyzeWalkEnd(k))
          /\ OthersIdle("analyze")
    \/ (\E k \in AnalyzeWorkers : AnalyzeEscape(k))
          /\ OthersIdle("analyze")
    \/ (\E k \in AnalyzeWorkers : AnalyzeFinally(k))
          /\ OthersIdle("analyze")
    \/ (\E k \in AnalyzeWorkers : AnalyzeComplete(k))
          /\ OthersIdle("analyze")

AnalyzeSpec == AnalyzeInit /\ [][AnalyzeNext]_vars

\* One analysis of a directory tree, entry by entry, with a caller that may
\* abort at any moment.
WalkSpecInit == WalkInit /\ OthersQuiet("walk")

WalkNext ==
    \/ WalkStart /\ OthersIdle("walk")
    \/ WalkAbort /\ OthersIdle("walk")
    \/ WalkCut /\ OthersIdle("walk")
    \/ (\E r \in BOOLEAN : WalkScandir(r)) /\ OthersIdle("walk")
    \/ WalkListingRaises /\ OthersIdle("walk")
    \/ WalkAbortSeen /\ OthersIdle("walk")
    \/ WalkEntryRaises /\ OthersIdle("walk")
    \/ (\E f \in BOOLEAN : WalkFile(f)) /\ OthersIdle("walk")
    \/ WalkSubdir /\ OthersIdle("walk")
    \/ WalkLeave /\ OthersIdle("walk")

WalkSpec == WalkSpecInit /\ [][WalkNext]_vars

\* An AnalyzeResult to which files and directories of any size are added.
LargestSpecInit == LargestInit /\ OthersQuiet("largest")

LargestNext ==
    \/ (\E n \in Sizes : LargestAddFile(n)) /\ OthersIdle("largest")
    \/ (\E n \in Sizes : LargestAddDir(n)) /\ OthersIdle("largest")

LargestSpec == LargestSpecInit /\ [][LargestNext]_vars

\* The files of one target's directory handed to _process_file one after
\* the other, under any rule and filter.
ProcSpecInit == ProcInit /\ OthersQuiet("proc")

ProcNext ==
    \/ (\E name \in FileNames, n \in 0..MaxSize, a \in 0..MaxAge,
            r \in BOOLEAN : ProcessFile(name, n, a, r)) /\ OthersIdle("proc")

ProcSpec == ProcSpecInit /\ [][ProcNext]_vars

\* The files of one directory, of any age, handed to _process_file.
AgeSpecInit == AgeInit /\ OthersQuiet("age")

AgeNext ==
    \/ (\E name \in FileNames, n \in 0..MaxSize, t \in 0..(MaxTime + 1) :
            ProcessAged(name, n, t)) /\ OthersIdle("age")

AgeSpec == AgeSpecInit /\ [][AgeNext]_vars

\* The scanner with a caller that adds and removes targets, clears the
\* list, scans and aborts at any moment.
TargetsInit ==
    /\ ScannerInit
    /\ scan_called_with = [w \in ScanWorkers |-> <<>>]
    /\ OthersQuiet("targets")

TargetsNext ==
    \/ (\E e \in BOOLEAN : AddTarget(e))
          /\ UNCHANGED snapVars /\ OthersIdle("targets")
    \/ (\E i \in -1..MaxTargets : RemoveTarget(i))
          /\ UNCHANGED snapVars /\ OthersIdle("targets")
    \/ ClearTargets /\ UNCHANGED snapVars /\ OthersIdle("targets")
    \/ ScanCalled /\ OthersIdle("targets")
    \/ AbortScan /\ UNCHANGED snapVars /\ OthersIdle("targets")
    \/ (\E w \in ScanWorkers : ScanThreadStart(w))
          /\ UNCHANGED snapVars /\ OthersIdle("targets")
    \/ (\E w \in ScanWorkers : ScanLoopExit(w))
          /\ UNCHANGED snapVars /\ OthersIdle("targets")
    \/ (\E w \in ScanWorkers, r \in BOOLEAN : ScanBeginTarget(w, r))
          /\ UNCHANGED snapVars /\ OthersIdle("targets")
    \/ (\E w \in ScanWorkers : ScanEndWalk(w))
          /\ UNCHANGED snapVars /\ OthersIdle("targets")
    \/ (\E w \in ScanWorkers, r \in BOOLEAN : ScanAfterWalk(w, r))
          /\ UNCHANGED snapVars /\ OthersIdle("targets")
    \/ (\E w \in ScanWorkers : ScanFinish(w))
          /\ UNCHANGED snapVars /\ OthersIdle("targets")
    \/ (\E w \in ScanWorkers : ScanComplete(w))
          /\ UNCHANGED snapVars /\ OthersIdle("targets")

TargetsSpec == TargetsInit /\ [][TargetsNext]_vars

\* add_custom_target calls, then a scan over the targets while directories
\* disappear.
RootSpecInit == RootInit /\ OthersQuiet("root")

RootNext ==
    \/ (\E p \in Dirs, ps \in ListsOf(Patterns, 1) : AddCustomTarget(p, ps))
          /\ OthersIdle("root")
    \/ (\E p \in Dirs : RemoveDir(p)) /\ OthersIdle("root")
    \/ RootScanStart /\ OthersIdle("root")
    \/ (\E r \in BOOLEAN : RootScanTarget(r)) /\ OthersIdle("root")

RootSpec == RootSpecInit /\ [][RootNext]_vars

\* A byte count is formatted and the string is parsed.
SizeSpecInit == SizeInit /\ OthersQuiet("size")

SizeNext ==
    \/ FormatSize /\ OthersIdle("size")
    \/ ParseSize /\ OthersIdle("size")

SizeSpec == SizeSpecInit /\ [][SizeNext]_vars

\* _secure_delete of one file, any of its operations failing.
SecureSpecInit == SecureInit /\ OthersQuiet("secure")

SecureNext ==
    \/ (\E r \in BOOLEAN : SdGetSize(r)) /\ OthersIdle("secure")
    \/ (\E r \in BOOLEAN : SdOpen(r)) /\ OthersIdle("secure")
    \/ (\E r \in BOOLEAN : SdSeek(r)) /\ OthersIdle("secure")
    \/ (\E r \in BOOLEAN : SdWrite(r)) /\ OthersIdle("secure")
    \/ (\E r \in BOOLEAN : SdFlush(r)) /\ OthersIdle("secure")
    \/ (\E r \in BOOLEAN : SdFsync(r)) /\ OthersIdle("secure")
    \/ (\E r \in BOOLEAN : SdRemove(r)) /\ OthersIdle("secure")
    \/ (\E r \in BOOLEAN : SdFallback(r)) /\ OthersIdle("secure")

SecureSpec == SecureSpecInit /\ [][SecureNext]_vars

\* _match_pattern on every name and pattern of at most MaxName characters.
GlobSpecInit == GlobInit /\ OthersQuiet("glob")

GlobNext ==
    \/ MatchPattern /\ OthersIdle("glob")

GlobSpec == GlobSpecInit /\ [][GlobNext]_vars

\* The walk of one target, entries failing and abort_scan() called at any
\* moment.
EntrySpecInit == EntryInit /\ OthersQuiet("entry")

EntryNext ==
    \/ EntryAbort /\ OthersIdle("entry")
    \/ EntryCheck /\ OthersIdle("entry")
    \/ (\E k \in EntryKinds : EntryProcess(k)) /\ OthersIdle("entry")

EntrySpec == EntrySpecInit /\ [][EntryNext]_vars

\* Either walker, the scanner's or the analyzer's, run once with a caller
\* that may abort at any moment.
CancelInit ==
    \/ EntryInit /\ OthersQuiet("entry")
    \/ WalkInit /\ OthersQuiet("walk")

\* The walker that runs: the scan walk has a target with a pattern.
ScanWalkChosen == ent_target.patterns # <<>>

CancelNext ==
    \/ ScanWalkChosen /\ EntryAbort /\ OthersIdle("entry")
    \/ ScanWalkChosen /\ EntryCheck /\ OthersIdle("entry")
    \/ ScanWalkChosen /\ (\E k \in EntryKinds : EntryProcess(k)) /\ OthersIdle("entry")
    \/ ~ScanWalkChosen /\ WalkStart /\ OthersIdle("walk")
    \/ ~ScanWalkChosen /\ WalkAbort /\ OthersIdle("walk")
    \/ ~ScanWalkChosen /\ WalkCut /\ OthersIdle("walk")
    \/ ~ScanWalkChosen /\ (\E r \in BOOLEAN : WalkScandir(r)) /\ OthersIdle("walk")
    \/ ~ScanWalkChosen /\ WalkListingRaises /\ OthersIdle("walk")
    \/ ~ScanWalkChosen /\ WalkAbortSeen /\ OthersIdle("walk")
    \/ ~ScanWalkChosen /\ WalkEntryRaises /\ OthersIdle("walk")
    \/ ~ScanWalkChosen /\ (\E f \in BOOLEAN : WalkFile(f)) /\ OthersIdle("walk")
    \/ ~ScanWalkChosen /\ WalkSubdir /\ OthersIdle("walk")
    \/ ~ScanWalkChosen /\ WalkLeave /\ OthersIdle("walk")

CancelSpec == CancelInit /\ [][CancelNext]_vars

\* One of the scanner, the cleaner and the analyzer, without callbacks, and
\* a caller that starts operations on it and aborts at any moment.
LeakInit ==
    /\ driven \in {"scan", "clean", "analyze"}
    /\ OthersQuiet("leak")

LeakNext ==
    \/ driven = "scan" /\ (\E e \in BOOLEAN : AddTarget(e))
          /\ OthersIdle("scan")
    \/ driven = "scan" /\ Scan("None", "None") /\ OthersIdle("scan")
    \/ driven = "scan" /\ AbortScan /\ OthersIdle("scan")
    \/ driven = "scan" /\ (\E w \in ScanWorkers : ScanThreadStart(w))
          /\ OthersIdle("scan")
    \/ driven = "scan" /\ (\E w \in ScanWorkers : ScanLoopExit(w))
          /\ OthersIdle("scan")
    \/ driven = "scan" /\ (\E w \in ScanWorkers : ScanBeginTarget(w, FALSE))
          /\ OthersIdle("scan")
    \/ driven = "scan" /\ (\E w \in ScanWorkers : ScanEndWalk(w))
          /\ OthersIdle("scan")
    \/ driven = "scan" /\ (\E w \in ScanWorkers : ScanAfterWalk(w, FALSE))
          /\ OthersIdle("scan")
    \/ driven = "scan" /\ (\E w \in ScanWorkers : ScanFinish(w))
          /\ OthersIdle("scan")
    \/ driven = "scan" /\ (\E w \in ScanWorkers : ScanComplete(w))
          /\ OthersIdle("scan")
    \/ driven = "clean" /\ CleanCall /\ OthersIdle("clean")
    \/ driven = "clean" /\ AbortClean /\ OthersIdle("clean")
    \/ driven = "clean" /\ (\E w \in CleanWorkers : CleanLoopExit(w))
          /\ OthersIdle("clean")
    \/ driven = "clean" /\ (\E w \in CleanWorkers : CleanBeginTask(w, FALSE))
          /\ OthersIdle("clean")
    \/ driven = "clean"
          /\ (\E w \in CleanWorkers, f \in BOOLEAN : CleanTaskStep(w, f))
          /\ OthersIdle("clean")
    \/ driven = "clean" /\ (\E w \in CleanWorkers : CleanFinish(w))
          /\ OthersIdle("clean")
    \/ driven = "clean" /\ (\E w \in CleanWorkers : CleanComplete(w))
          /\ OthersIdle("clean")
    \/ driven = "analyze" /\ AnalyzeCall /\ OthersIdle("analyze")
    \/ driven = "analyze" /\ AbortAnalyze /\ OthersIdle("analyze")
    \/ driven = "analyze" /\ (\E k \in AnalyzeWorkers : AnalyzeThreadStart(k))
          /\ OthersIdle("analyze")
    \/ driven = "analyze" /\ (\E k \in AnalyzeWorkers : AnalyzeSingleFile(k))
          /\ OthersIdle("analyze")
    \/ driven = "analyze" /\ (\E k \in AnalyzeWorkers : AnalyzeEntry(k))
          /\ OthersIdle("analyze")
    \/ driven = "analyze" /\ (\E k \in AnalyzeWorkers : AnalyzeWalkEnd(k))
          /\ OthersIdle("analyze")
    \/ driven = "analyze" /\ (\E k \in AnalyzeWorkers : AnalyzeEscape(k))
          /\ OthersIdle("analyze")
    \/ driven = "analyze" /\ (\E k \in AnalyzeWorkers : AnalyzeFinally(k))
          /\ OthersIdle("analyze")
    \/ driven = "analyze" /\ (\E k \in AnalyzeWorkers : AnalyzeComplete(k))
          /\ OthersIdle("analyze")

LeakSpec == LeakInit /\ [][LeakNext]_vars

\* ------------------------------------------------------ Scanner claims

\* Workers whose scan has not finished: the thread was created by scan() and
\* has not yet reached the end of its processing (line 489).
ScanInFlight ==
    {w \in ScanWorkers : scanW[w].pc \in {"start", "loop", "walk", "after", "finish"}}

\* Workers ever started.
ScanStarted == {w \in ScanWorkers : scanW[w].pc # "idle"}

\* C1: at most one scan worker is in flight at any time; a scan() call made
\* while a previous scan has not finished returns False and starts no worker;
\* a scan() call made when no scan is running (is_running() is False) returns
\* True and starts exactly one worker.
C1_AtMostOneScan ==
    /\ [](Cardinality(ScanInFlight) <= 1)
    /\ [][Scan(scanCallbacks.progress, scanCallbacks.complete) =>
            /\ ScanInFlight # {} =>
                 (scan_ret' = "False" /\ scanW' = scanW)
            /\ ~running =>
                 /\ scan_ret' = "True"
                 /\ Cardinality(ScanStarted') = Cardinality(ScanStarted) + 1
                 /\ Cardinality(ScanInFlight') = 1]_vars

\* A scan() call was refused while a worker is in flight.
C1_Witness == scan_ret = "False" /\ Cardinality(ScanInFlight) = 1

\* Worker threads that have ended (returned, or died of an exception).
ScanThreadsEnded == {w \in ScanWorkers : scanW[w].pc \in {"done", "crashed"}}

\* C4: every accepted scan() with a completion callback has that callback
\* invoked exactly once, after its worker stopped processing targets, with
\* the list of ScanResults that invocation accumulated (the list its worker
\* allocated and appended to).
C4_ScanCompletionOnce ==
    \A w \in ScanWorkers :
        /\ Len(scanCompleted[w]) <= 1
        /\ \A i \in DOMAIN scanCompleted[w] :
              /\ scanCompleted[w][i].list = w
              /\ scanCompleted[w][i].value = resultLists[w]
        /\ (w \in ScanThreadsEnded /\ scanCallbacks.complete = "cb")
              => Len(scanCompleted[w]) = 1

\* C7: no exception inside the background task strands the run flag: once
\* every worker thread has ended, running is False and every accepted scan()
\* has had its completion callback invoked exactly once (so that a later
\* scan() is accepted).
C7_RunFlagNeverStranded ==
    (ScanStarted # {} /\ ScanStarted = ScanThreadsEnded) =>
        /\ ~running
        /\ scanCallbacks.complete = "cb" =>
              \A w \in ScanStarted : Len(scanCompleted[w]) = 1

\* C8: only enabled targets are scanned, in target-list order: in every
\* result list, and in every list a completion callback received, the i-th
\* ScanResult belongs to the i-th enabled target of the target list, so no
\* ScanResult belongs to a disabled target.
C8_EnabledTargetsInOrder ==
    LET IthEnabled(p, i) ==
            /\ targets[p].enabled
            /\ Cardinality({j \in 1..(p - 1) : targets[j].enabled}) = i - 1
        InOrder(rs) ==
            \A i \in DOMAIN rs : \E p \in DOMAIN targets :
                targets[p].id = rs[i].target /\ IthEnabled(p, i)
    IN /\ \A l \in DOMAIN resultLists : InOrder(resultLists[l])
       /\ \A w \in ScanWorkers : \A i \in DOMAIN scanCompleted[w] :
             InOrder(scanCompleted[w][i].value)

\* A completion callback received the result of the second target alone,
\* the first target of the list being disabled.
C8_Witness ==
    \E w \in ScanWorkers :
        /\ Len(targets) >= 2 /\ ~targets[1].enabled /\ targets[2].enabled
        /\ Len(scanCompleted[w]) = 1
        /\ scanCompleted[w][1].value = <<ScanResult(targets[2].id)>>

\* C9: abort_scan() called during the walk of the k-th enabled target: the
\* worker starts no walk for a later target, and the completion callback
\* receives at most k ScanResults.
C9_AbortStopsAtTarget ==
    \A w \in ScanWorkers :
        scanAbortedAt[w] > 0 =>
            /\ scanW[w].current <= scanAbortedAt[w]
            /\ \A i \in DOMAIN scanCompleted[w] :
                  Len(scanCompleted[w][i].value) <= scanAbortedAt[w]

\* ------------------------------------------------------ Cleaner claims

\* The clean threads that have not yet cleared the run flag.
CleanInFlight == {w \in CleanWorkers : cleanW[w].pc \in {"loop", "clean", "finish"}}

\* The clean threads that were started.
CleanStarted == {w \in CleanWorkers : cleanW[w].pc # "idle"}

\* The clean threads that have ended.
CleanThreadsEnded == {w \in CleanWorkers : cleanW[w].pc \in {"done", "crashed"}}

\* C2: at most one clean worker is in flight at any time; clean() called
\* while a previous clean has not finished returns False, starts no worker
\* and leaves every file as it is; clean() called when the cleaner is idle
\* returns True and starts exactly one worker.
C2_AtMostOneClean ==
    /\ [](Cardinality(CleanInFlight) <= 1)
    /\ [][CleanCall =>
            /\ CleanInFlight # {} =>
                 (clean_ret' = "False" /\ cleanW' = cleanW /\ fs' = fs)
            /\ ~clean_running =>
                 /\ clean_ret' = "True"
                 /\ Cardinality(CleanStarted') = Cardinality(CleanStarted) + 1
                 /\ Cardinality(CleanInFlight') = 1]_vars

\* A clean() call was refused while a worker is about to clean a file that
\* exists.
C2_Witness ==
    /\ clean_ret = "False"
    /\ \E w \in CleanWorkers :
          /\ CleanInFlight = {w}
          /\ cleanW[w].pc = "clean"
          /\ Exists(fs, cleanW[w].tasks[cleanW[w].i + 1].file_path)

\* rs holds one result for each of the first Len(rs) tasks of ts, in order.
ResultsOfPrefix(rs, ts) ==
    /\ Len(rs) <= Len(ts)
    /\ \A i \in DOMAIN rs :
          rs[i].file_path = ts[i].file_path /\ rs[i].size = ts[i].size

\* C5: every accepted clean() invokes the completion callback exactly once,
\* with one CleanResult for each task of a prefix of the input list: all the
\* tasks when the clean was not aborted, and no result for a task after the
\* abort point.
C5_CleanCompletionOnce ==
    \A w \in CleanWorkers :
       /\ Len(cleanCompleted[w]) <= 1
       /\ \A i \in DOMAIN cleanCompleted[w] :
             LET e == cleanCompleted[w][i]
             IN /\ ResultsOfPrefix(e.results, e.tasks)
                /\ ~e.aborted => Len(e.results) = Len(e.tasks)
       /\ (w \in CleanThreadsEnded /\ cleanArgs.complete = "cb")
             => Len(cleanCompleted[w]) = 1

\* C10: tasks are processed in input order and a failing task does not stop
\* the batch: the results collected so far are those of the first tasks, in
\* order, and a clean that was not aborted leaves its loop with, and reports,
\* one result for every task, whichever tasks failed.
C10_TasksInOrderFailuresIsolated ==
    \A w \in CleanWorkers :
       /\ ResultsOfPrefix(cleanW[w].results, cleanW[w].tasks)
       /\ Len(cleanW[w].results) = cleanW[w].i
       /\ (cleanW[w].pc \in {"finish", "complete"} /\ ~cleanW[w].aborted)
             => Len(cleanW[w].results) = Len(cleanW[w].tasks)
       /\ \A i \in DOMAIN cleanCompleted[w] :
             LET e == cleanCompleted[w][i]
             IN /\ ResultsOfPrefix(e.results, e.tasks)
                /\ ~e.aborted => Len(e.results) = Len(e.tasks)

\* Three PERMANENT tasks, the second path removed by another process: the
\* callback gets success, "not found", success, and the third path is gone.
C10_Witness ==
    \E w \in CleanWorkers :
       /\ cleanArgs.method = "PERMANENT"
       /\ Len(cleanCompleted[w]) = 1
       /\ Len(cleanCompleted[w][1].tasks) = 3
       /\ ~cleanCompleted[w][1].aborted
       /\ [i \in 1..3 |-> cleanCompleted[w][1].results[i].success]
             = <<TRUE, FALSE, TRUE>>
       /\ cleanCompleted[w][1].results[2].error = NotFound
       /\ ~Exists(fs, TaskPath(3))

\* ----------------------------------------------------- Analyzer claims

\* The analyses in progress: analyze_disk() has returned and the thread has
\* not yet reached its cleanup (line 272).
AnalyzeInProgress ==
    {k \in AnalyzeWorkers : analyzeW[k].pc \in {"spawned", "walk", "file", "finally"}}

\* C3: while an analysis is in progress no second analysis thread exists,
\* and the analyzer still holds the callbacks of that analysis, its abort
\* request and its result object.
C3_SecondAnalysisRefused ==
    \A k \in AnalyzeInProgress :
       /\ AnalyzeInProgress = {k}
       /\ analyzeCallbacks.progress = "cb" => analyze_progress_callback = k
       /\ analyzeCallbacks.complete = "cb" => analyze_complete_callback = k
       /\ analyzeW[k].abort_requested => aborted
       /\ analyzeW[k].pc # "spawned" => result = k

\* C6: every started analysis invokes its completion callback exactly once,
\* however the thread leaves the walk, with the AnalyzeResult of that
\* analysis and with is_analyzing false.
C6_AnalyzeCompletionOnce ==
    \A k \in AnalyzeWorkers :
       /\ Len(analyzeCompleted[k]) <= 1
       /\ (analyzeW[k].pc = "done" /\ analyzeCallbacks.complete = "cb")
             => Len(analyzeCompleted[k]) = 1
       /\ \A i \in DOMAIN analyzeCompleted[k] :
             /\ analyzeCompleted[k][i].by = k
             /\ analyzeCompleted[k][i].result = k
             /\ ~analyzeCompleted[k][i].is_analyzing

\* The paths _clean_file may change when it processes the task of path p.
TouchedBy(p) == {p, Bak(p), BakTs(p, now)}

\* C12: the abort flag is looked at before each task and nothing is rolled
\* back: a thread that sees the flag at the head of the loop processes no
\* further task and never returns to the loop; the cleaner changes no path
\* but those of the task being processed, so the files of the omitted tasks
\* stay as they are; and no path that was removed comes back.
C12_AbortNeverRollsBack ==
    /\ [][\A w \in CleanWorkers :
            /\ (cleanW[w].pc = "loop" /\ clean_abort_flag)
                  => (cleanW'[w].pc \in {"loop", "finish"}
                      /\ cleanW'[w].results = cleanW[w].results)
            /\ cleanW[w].pc \in {"finish", "complete", "done", "crashed"}
                  => cleanW'[w].pc \notin {"loop", "clean"}]_vars
    /\ [][\A p \in DOMAIN fs \cup DOMAIN fs' :
            (p \notin DOMAIN fs \/ p \notin DOMAIN fs' \/ fs'[p] # fs[p])
               => \/ removes' # removes
                  \/ \E w \in CleanWorkers :
                        /\ cleanW[w].pc = "clean"
                        /\ cleanW'[w].i = cleanW[w].i + 1
                        /\ p \in TouchedBy(cleanW[w].tasks[cleanW[w].i + 1].file_path)]_vars
    /\ [][\A i \in 1..MaxTasks :
            ~Exists(fs, TaskPath(i)) => ~Exists(fs', TaskPath(i))]_vars

\* A clean was aborted after its first task: the first file is gone, the
\* thread has left the loop, and the file of the next task is as it was.
C12_Witness ==
    \E w \in CleanWorkers :
       /\ cleanW[w].pc = "finish"
       /\ cleanW[w].aborted
       /\ clean_abort_flag
       /\ removes = 0
       /\ cleanW[w].i = 1 /\ Len(cleanW[w].tasks) > 1
       /\ cleanW[w].results[1].success
       /\ ~Exists(fs, TaskPath(1))
       /\ Exists(fs, TaskPath(2)) /\ fs[TaskPath(2)] = StartFs[TaskPath(2)]

\* ------------------------------------------------- _clean_file claims

\* C11: a task whose path does not exist when it is processed gets success
\* False with the "not found" message; one whose deletion strategy raises
\* gets success False with the exception's message; any other gets success
\* True and no message.  So success is True exactly when error is absent.
C11_ResultClassified ==
    \A i \in DOMAIN fileOps :
       LET e == fileOps[i]
       IN /\ ~e.existed => (~e.result.success /\ e.result.error = NotFound)
          /\ (e.existed /\ e.raised)
                => (~e.result.success /\ e.result.error = Message)
          /\ (e.existed /\ ~e.raised)
                => (e.result.success /\ e.result.error = "None")
          /\ e.result.success <=> e.result.error = "None"

\* Three tasks were cleaned: one was missing, one raised, one succeeded.
C11_Witness ==
    \E i, j, k \in DOMAIN fileOps :
       /\ ~fileOps[i].existed /\ fileOps[i].result.error = NotFound
       /\ fileOps[j].raised /\ fileOps[j].result.error = Message
       /\ fileOps[k].result.success

\* The successful RENAME cleans of path p among the invocations ops.
Renames(ops, p) ==
    {i \in DOMAIN ops : /\ ops[i].method = "RENAME"
                        /\ ops[i].task.file_path = p
                        /\ ops[i].result.success}

\* C13: the first rename-clean of a path moves the file to <path>.bak; the
\* second one (of a file created again at that path) moves it to
\* <path>.<epoch>.bak, a different path that did not exist; and the first
\* backup is never replaced or removed.
C13_RenameTwiceKeepsBoth ==
    [][\A i \in 1..MaxTasks :
         LET p == TaskPath(i)
         IN /\ (Exists(fs, Bak(p)) /\ Cardinality(Renames(fileOps', p)) <= 2)
                 => (Exists(fs', Bak(p)) /\ fs'[Bak(p)] = fs[Bak(p)])
            /\ (Renames(fileOps', p) # Renames(fileOps, p)
                  /\ Cardinality(Renames(fileOps, p)) = 0)
                 => /\ ~Exists(fs, Bak(p))
                    /\ Exists(fs', Bak(p)) /\ fs'[Bak(p)] = fs[p]
            /\ (Renames(fileOps', p) # Renames(fileOps, p)
                  /\ Cardinality(Renames(fileOps, p)) = 1)
                 => /\ BakTs(p, now) # Bak(p)
                    /\ ~Exists(fs, BakTs(p, now))
                    /\ Exists(fs', BakTs(p, now))
                    /\ fs'[BakTs(p, now)] = fs[p]]_vars

\* A path was rename-cleaned twice: both backups exist, with the contents of
\* the first and of the second file.
C13_Witness ==
    \E i \in 1..MaxTasks, t \in 1..MaxNow :
       /\ Cardinality(Renames(fileOps, TaskPath(i))) = 2
       /\ Exists(fs, Bak(TaskPath(i)))
       /\ Exists(fs, BakTs(TaskPath(i), t))
       /\ fs[Bak(TaskPath(i))] = StartFs[TaskPath(i)]
       /\ fs[BakTs(TaskPath(i), t)] # fs[Bak(TaskPath(i))]

\* C14: when a SECURE task reports success, its path does not exist after
\* the invocation, whether it was a file (of any size, 0 included) or a
\* directory.
C14_SecureSuccessRemoves ==
    [][Len(fileOps') > Len(fileOps) =>
         LET e == fileOps'[Len(fileOps')]
         IN (e.method = "SECURE" /\ e.result.success)
               => (e.existed /\ ~Exists(fs', e.task.file_path))]_vars

\* SECURE has succeeded on an empty file, on a file with bytes and on a
\* directory, and the path cleaned last is gone.
C14_Witness ==
    /\ \E i, j \in DOMAIN fileOps :
          /\ fileOps[i].method = "SECURE" /\ fileOps[i].result.success
          /\ StartFs[fileOps[i].task.file_path].kind = "dir"
          /\ fileOps[j].method = "SECURE" /\ fileOps[j].result.success
          /\ StartFs[fileOps[j].task.file_path].kind = "file"
          /\ fileOps[j].task.size > 0
    /\ Len(fileOps) = MaxOps
    /\ LET e == fileOps[Len(fileOps)]
       IN /\ e.method = "SECURE" /\ e.result.success
          /\ e.existed /\ e.task.size = 0
          /\ StartFs[e.task.file_path].kind = "file"
          /\ ~Exists(fs, e.task.file_path)

\* ------------------------------------------- _analyze_directory claims

\* Depth of a path below the analysed directory (the root has depth 0).
Depth(p) == Len(p) - 1

\* The analysis has run to its end.
WalkDone == items # <<>> /\ stack = <<>>

\* C15: with max_depth = 1 on root/sub1/sub2/file.txt neither sub2 nor
\* file.txt is a node of the tree of an analysis that ran to its end, and
\* sub1 has size 0; and in general no directory deeper than max_depth has a
\* DiskItem.
C15_BeyondDepthNotAdded ==
    /\ (/\ max_depth = 1 /\ DOMAIN disk = {Root, Sub1, Sub2, FileTxt}
        /\ WalkDone /\ ~walk_aborted /\ ~walk_faulted)
          => /\ Sub2 \notin DOMAIN items
             /\ FileTxt \notin DOMAIN items
             /\ Sub1 \in DOMAIN items /\ items[Sub1].size = 0
    /\ max_depth # NoDepth =>
          \A p \in DOMAIN items : items[p].is_dir => Depth(p) <= max_depth

\* Sum of the sizes of the items named in the sequence s.
RECURSIVE SumSizes(_, _)
SumSizes(its, s) ==
    IF s = <<>> THEN 0 ELSE its[Head(s)].size + SumSizes(its, Tail(s))

\* C16: every directory item whose walk has completed has a size equal to
\* the sum of the sizes of its children.
C16_DirSizeIsSumOfChildren ==
    \A d \in walked : items[d].size = SumSizes(items, items[d].children)

\* The analysis ended with the three directories walked, the inner ones
\* holding bytes.
C16_Witness ==
    /\ WalkDone
    /\ walked = Directories
    /\ items[Sub2].size > 0
    /\ items[Sub1].size > items[Sub2].size
    /\ items[Root].size > items[Sub1].size

\* ---------------------------------------------- largest-lists claims

\* The list l holds the largest of the items seen: at most MaxCount entries,
\* in descending order of size, each of them an item that was added, none
\* twice, as many as were added up to MaxCount, and no item that is missing
\* from it is larger than one that is in it.
HoldsLargest(l, seen) ==
    /\ Len(l) <= MaxCount
    /\ \A i, j \in DOMAIN l : i < j => l[i].size >= l[j].size
    /\ \A i, j \in DOMAIN l : l[i].path = l[j].path => i = j
    /\ \A i \in DOMAIN l :
          \E k \in 1..seen[l[i].size] : l[i].path = ItemPath(l[i].size, k)
    /\ Len(l) = IF Total(seen, Sizes) < MaxCount THEN Total(seen, Sizes)
                ELSE MaxCount
    /\ \A s \in Sizes : \A k \in 1..seen[s] :
          (\A i \in DOMAIN l : l[i].path # ItemPath(s, k))
             => \A i \in DOMAIN l : l[i].size >= s

\* C17: after every add_file and add_dir, largest_files and largest_dirs
\* hold at most 20 entries each, in descending order of size, and these are
\* the 20 largest items added so far.
C17_LargestListsBounded ==
    /\ HoldsLargest(largest_files, seen_files)
    /\ HoldsLargest(largest_dirs, seen_dirs)

\* Both lists are full after more than MaxCount additions, hold items of two
\* sizes, and a small item had to leave each of them.
C17_Witness ==
    /\ Total(seen_files, Sizes) > MaxCount
    /\ Len(largest_files) = MaxCount
    /\ largest_files[1].size > largest_files[MaxCount].size
    /\ \E k \in 1..seen_files[0] :
          \A i \in DOMAIN largest_files :
              largest_files[i].path # ItemPath(0, k)
    /\ Total(seen_dirs, Sizes) > MaxCount
    /\ Len(largest_dirs) = MaxCount
    /\ largest_dirs[1].size > largest_dirs[MaxCount].size
    /\ \E k \in 1..seen_dirs[0] :
          \A i \in DOMAIN largest_dirs :
              largest_dirs[i].path # ItemPath(0, k)

\* ------------------------------------------------- _process_file claims

\* Sum of the sizes recorded in file_info for the paths of the list s.
RECURSIVE SumRecorded(_, _)
SumRecorded(r, s) ==
    IF s = <<>> THEN 0 ELSE r.file_info[Head(s)].size + SumRecorded(r, Tail(s))

\* C18: at every point of a scan the total_size of a ScanResult is the sum
\* of the recorded sizes of the paths in its files list.
C18_TotalSizeIsSumOfFiles ==
    scan_result.total_size = SumRecorded(scan_result, scan_result.files)

\* Two files with bytes were recorded.
C18_Witness ==
    /\ Len(scan_result.files) = 2
    /\ \A i \in 1..2 : scan_result.file_info[scan_result.files[i]].size > 0
    /\ scan_result.total_size > 1

\* C19: no recorded file has a size below the target's min_size or above the
\* target's max_size (when set), nor outside the bounds of the scan's
\* filter.
C19_RecordedWithinSizeBounds ==
    \A p \in Elements(scan_result.files) :
        LET size == scan_result.file_info[p].size
        IN /\ size >= proc_target.min_size
           /\ proc_target.max_size # Unset => size <= proc_target.max_size
           /\ ~filter_obj.is_none =>
                 /\ size >= filter_obj.min_size
                 /\ filter_obj.max_size # Unset => size <= filter_obj.max_size

\* What each glob pattern in use matches among the file names: *.t matches
\* a.t and B.T, a* matches a.t and a.l.
Globbed(pattern) ==
    IF pattern = <<"*", ".", "t">>
    THEN {<<"a", ".", "t">>, <<"B", ".", "T">>}
    ELSE {<<"a", ".", "t">>, <<"a", ".", "l">>}

\* C20: a recorded file matches at least one include pattern of the target,
\* unless the target has none, and matches no exclude pattern.
C20_IncludedAndNotExcluded ==
    \A name \in Elements(scan_result.files) :
        /\ \/ proc_target.patterns = <<>>
           \/ \E i \in DOMAIN proc_target.patterns :
                 name \in Globbed(proc_target.patterns[i])
        /\ \A i \in DOMAIN proc_target.exclude_patterns :
              name \notin Globbed(proc_target.exclude_patterns[i])

\* With include patterns *.t and a* and exclude pattern a*, B.T was
\* recorded, and a.t, which matches both an include and the exclude pattern,
\* was processed and left out.
C20_Witness ==
    /\ Len(proc_target.patterns) = 2
    /\ proc_target.exclude_patterns = <<<<"a", "*">>>>
    /\ processed = {<<"B", ".", "T">>, <<"a", ".", "t">>}
    /\ scan_result.files = <<<<"B", ".", "T">>>>

\* ------------------------------------------------------- age claims

C22_ProgressTwicePerTarget ==
    /\ [][\A w \in ScanWorkers :
            scanProgress'[w] # scanProgress[w] =>
               /\ Len(scanProgress'[w]) = Len(scanProgress[w]) + 1
               /\ scanW[w].pc \in {"loop", "after"}
               /\ scanCompleted[w] = <<>>]_vars
    /\ [](\A w \in ScanWorkers :
            scanW[w].progress_callback # "None" =>
               /\ scanW[w].pc \in {"loop", "finish", "complete"} =>
                     Len(scanProgress[w]) = 2 * scanW[w].current
               /\ scanW[w].pc \in {"walk", "after"} =>
                     Len(scanProgress[w]) = 2 * scanW[w].current - 1)
    /\ [](\A w \in ScanWorkers :
            scanW[w].pc = "done" =>
               /\ Len(scanProgress[w]) % 2 = 0
               /\ \A i \in DOMAIN scanProgress[w] :
                     scanProgress[w][i][1] = i \div 2)

\* A scan of two targets has ended: four progress calls, then the
\* completion callback.
C22_Witness ==
    \E w \in ScanWorkers :
        /\ scanW[w].pc = "done"
        /\ Len(scanProgress[w]) = 4
        /\ Len(scanCompleted[w]) = 1

\* The quotient n / d rounded to the nearest integer, a half going up.
Round(n, d) == (2 * n + d) \div (2 * d)

\* C23: in every scan progress call (currentIndex, totalTargets, percent),
\* percent is currentIndex * 100 / totalTargets rounded, before a walk as
\* well as after it.
C23_ScanPercentRounded ==
    \A w \in ScanWorkers : \A i \in DOMAIN scanProgress[w] :
        LET call == scanProgress[w][i]
        IN call[3] = Round(call[1] * 100, call[2])

\* ----------------------------------------------- clean progress claims

\* C24: the clean progress callback is invoked with index i after task i has
\* been processed: when the call is made the CleanResult of tasks[i-1] has
\* been recorded (and its deletion applied).
C24_ProgressAfterTask ==
    \A w \in CleanWorkers :
        cleanW[w].pc \in {"loop", "clean", "finish", "complete"} =>
           \A k \in DOMAIN cleanProgress[w] :
              /\ cleanProgress[w][k][1] = k
              /\ k <= Len(cleanW[w].results)

\* C25: in every clean progress call (current, total, percent), percent is
\* current * 100 / total rounded when total > 0 and 100 when total = 0; the
\* last call of a clean that was not aborted reports 100.
C25_CleanPercentRounded ==
    /\ \A w \in CleanWorkers : \A k \in DOMAIN cleanProgress[w] :
          LET call == cleanProgress[w][k]
          IN call[3] = IF call[2] > 0 THEN Round(call[1] * 100, call[2])
                       ELSE 100
    /\ \A w \in CleanWorkers :
          /\ cleanW[w].pc \in {"finish", "complete"}
          /\ ~cleanW[w].aborted
          /\ cleanProgress[w] # <<>>
          => cleanProgress[w][Len(cleanProgress[w])][3] = 100

\* -------------------------------------------- analysis progress claims

\* The invocations of the progress callbacks made for result r.
ProgressCallsFor(r) ==
    {<<cb, i>> \in AnalyzeWorkers \X (1..(MaxAnalyses * MaxEntries)) :
        i \in DOMAIN analyzeProgress[cb] /\ analyzeProgress[cb][i].result = r}

\* C26: during an analysis with a progress callback, the callback is invoked
\* once for every file counted: the file counts it is passed are 1, 2, 3, ...
\* (each call one more than the call before), and every file added to an
\* AnalyzeResult has had its call.
C26_ProgressPerFile ==
    analyzeCallbacks.progress # "None" =>
       /\ \A cb \in AnalyzeWorkers : \A i \in DOMAIN analyzeProgress[cb] :
             analyzeProgress[cb][i].file_count = i
       /\ \A r \in AnalyzeWorkers :
             analyzeResults[r].file_count = Cardinality(ProgressCallsFor(r))

\* C27: analyze_disk() returns True when it starts an analysis and False
\* when it refuses, so every call that has returned has returned a boolean,
\* and True only after a thread was created.
C27_StartReported ==
    /\ analyze_ret \in {"none", "True", "False"}
    /\ analyze_ret = "True" => AnalyzeFree # AnalyzeWorkers

\* --------------------------------------------- target list claims

\* C28: add_target, remove_target and clear_targets called after scan() has
\* returned True do not affect that scan: the targets its thread processes
\* are the enabled targets as they were when scan() was called.
C28_TargetsFixedAtCall ==
    \A w \in ScanWorkers :
        scanW[w].pc \in {"loop", "walk", "after", "finish", "complete"} =>
           scanW[w].enabled_targets = scan_called_with[w]

\* ---------------------------------------------- invalid root claims

\* The paths of the calls that found their directory.
RECURSIVE AcceptedPaths(_)
AcceptedPaths(calls) ==
    IF calls = <<>> THEN <<>>
    ELSE IF Head(calls).existed
         THEN <<Head(calls).path>> \o AcceptedPaths(Tail(calls))
         ELSE AcceptedPaths(Tail(calls))

\* C29: a target whose root does not exist when it is scanned gets an empty
\* ScanResult (no files, total_size 0), nothing is raised and the scan goes
\* on with the targets after it; add_custom_target with a path that does
\* not exist returns None and leaves the target list as it was.
C29_MissingRootIsNoOp ==
    /\ \A i \in DOMAIN root_results :
          /\ ~root_results[i].raised
          /\ root_results[i].path = root_snapshot[i].path
          /\ ~root_results[i].existed =>
                /\ root_results[i].result.files = <<>>
                /\ root_results[i].result.total_size = 0
    /\ \A i \in DOMAIN custom_calls :
          ~custom_calls[i].existed => custom_calls[i].ret = "None"
    /\ [j \in DOMAIN custom_targets |-> custom_targets[j].path]
          = AcceptedPaths(custom_calls)

\* A call with a missing path was refused, and a scan gave an empty result
\* to a target whose root had disappeared and went on to find the files of
\* the target after it.
C29_Witness ==
    /\ \E i \in DOMAIN custom_calls : ~custom_calls[i].existed
    /\ \E i \in DOMAIN root_results :
          /\ ~root_results[i].existed
          /\ i + 1 \in DOMAIN root_results
          /\ root_results[i + 1].result.total_size > 0

\* --------------------------------------------------- SizeUtils claims

\* |a - b|.
NumDistance(a, b) ==
    IF NumLeq(a, b) THEN NumNorm(NumSub(b, a, 0)) ELSE NumNorm(NumSub(a, b, 0))

\* The unit the formatter chose for the byte count, as a power of 1024.
ChosenUnit ==
    CHOOSE u \in 0..(Len(UnitNames) - 1) : UnitNames[u + 1] = size_str.words[1]

\* C30: for every byte count s >= 0 the string bytes_to_human_readable(s)
\* is parsed back by human_readable_to_bytes to s within half a unit of the
\* last printed decimal: exactly for B, and within 1024^u / 200 for the
\* units KB to PB, printed with two decimals.
C30_RoundTripWithinTolerance ==
    size_pc = "out" =>
       IF size_str.point
       THEN NumLeq(NumMul(NumDistance(size_in_bytes, size_out),
                          2 * DecimalScale, 0),
                   NumPow(ChosenUnit))
       ELSE size_out = size_in_bytes

\* ------------------------------------------------ secure delete claims

\* The writes that cover n bytes from offset 0 in pieces of at most 1 MiB.
ExpectedWrites(n, pass, byte) ==
    [i \in 1..((n + 1048575) \div 1048576) |->
        [op |-> "write", pass |-> pass, offset |-> (i - 1) * 1048576,
         size |-> IF i * 1048576 <= n THEN 1048576 ELSE n - (i - 1) * 1048576,
         pattern |-> byte]]

ExpectedPass(n, pass, byte) ==
    <<[op |-> "seek", pass |-> pass, offset |-> 0, size |-> 0, pattern |-> 0]>>
    \o ExpectedWrites(n, pass, byte)
    \o <<[op |-> "flush", pass |-> pass, offset |-> 0, size |-> 0, pattern |-> 0],
         [op |-> "fsync", pass |-> pass, offset |-> 0, size |-> 0, pattern |-> 0]>>

ExpectedLog(n) ==
    ExpectedPass(n, 0, 255) \o ExpectedPass(n, 1, 0) \o ExpectedPass(n, 2, 170)
    \o <<[op |-> "remove", pass |-> 3, offset |-> 0, size |-> 0, pattern |-> 0]>>

\* C31: a secure delete of a file of n bytes in which nothing fails makes
\* three passes, 0xFF, 0x00, 0xAA, each from offset 0 over exactly n bytes
\* in writes of at most 1 MiB and each followed by flush and fsync, and
\* removes the file only after the third fsync.
C31_ThreePassesThenRemove ==
    ~sd_faulted =>
       /\ Len(sd_log) <= Len(ExpectedLog(sd_size))
       /\ sd_log = SubSeq(ExpectedLog(sd_size), 1, Len(sd_log))
       /\ sd_pc = "returned" => sd_log = ExpectedLog(sd_size)
       /\ ~sd_exists => sd_pc = "returned"

\* A file of more than 1 MiB has been deleted without a fault.
C31_Witness ==
    /\ ~sd_faulted
    /\ sd_pc = "returned"
    /\ sd_size > 1048576
    /\ ~sd_exists

\* C32: when the overwrite fails at any point, a plain delete is attempted:
\* a secure delete that reports success has removed the file, and it
\* reports failure only when the plain delete failed too.
C32_FallbackDelete ==
    /\ sd_pc = "returned" => ~sd_exists
    /\ sd_pc = "raised" =>
          /\ sd_faulted
          /\ sd_log[Len(sd_log)].op = "plain remove"
    /\ (sd_faulted /\ sd_pc \in {"returned", "raised"}) =>
          sd_log[Len(sd_log)].op = "plain remove"

\* A write of the second pass failed, the plain delete removed the
\* half-overwritten file, and the task succeeds.
C32_Witness ==
    /\ sd_faulted
    /\ sd_pc = "returned"
    /\ ~sd_exists
    /\ \E i \in DOMAIN sd_log : sd_log[i].op = "write" /\ sd_log[i].pass = 1
    /\ \A i \in DOMAIN sd_log : sd_log[i].pass < 2

\* ------------------------------------------------- _match_pattern claims

\* Glob matching of the first i characters of the name by the first j
\* characters of the pattern: '*' stands for any run of characters, '?' for
\* one character, every other character for itself in either case.
RECURSIVE GlobPrefix(_, _, _, _)
GlobPrefix(name, pattern, i, j) ==
    IF j = 0 THEN i = 0
    ELSE IF pattern[j] = "*"
         THEN \E k \in 0..i : GlobPrefix(name, pattern, k, j - 1)
         ELSE /\ i > 0
              /\ \/ pattern[j] = "?"
                 \/ <<name[i], pattern[j]>> \in
                       {<<c, c>> : c \in NameChars \cup PatternChars}
                       \cup {<<"B", "b">>}
              /\ GlobPrefix(name, pattern, i - 1, j - 1)

\* C33: _match_pattern follows glob semantics for every file name and
\* pattern: '*' matches any run of characters, '?' exactly one, every other
\* character only itself, ignoring case, and the whole name must match.
C33_GlobSemantics ==
    glob_result # "none" =>
       (glob_result = "True") =
          GlobPrefix(glob_filename, glob_pattern,
                     Len(glob_filename), Len(glob_pattern))

\* ---------------------------------------------------- scan walk claims

\* The entries below a directory that could not be listed.
Unlistable(i) ==
    \E j \in 1..(i - 1) :
        /\ EntryTree[j].is_dir
        /\ ent_kinds[j] = "OSError"
        /\ \A k \in (j + 1)..i : EntryTree[k].depth > EntryTree[j].depth

\* C34: an exception raised while one directory entry is processed skips
\* only that entry: when a walk that was not aborted has returned, every
\* matching file that met no exception itself (and lies in no directory that
\* could not be listed) is recorded.
C34_EntryErrorSkipsOnlyEntry ==
    (ent_pc = "returned" /\ ~ent_abort) =>
       \A i \in DOMAIN EntryTree :
          (/\ ~EntryTree[i].is_dir
           /\ ent_kinds[i] \in {"none", "unvisited"}
           /\ ~Unlistable(i)
           /\ AnyMatch(EntryTree[i].name, ent_target.patterns))
          => \E k \in DOMAIN ent_result.files :
                ent_result.files[k] = EntryTree[i].name

\* C35: both walkers look at the abort flag before each entry and at each
\* recursion boundary.  Once abort_scan() has set the flag, the scan walk
\* completes at most the entry it is processing (at most one more file is
\* recorded, at any level) and keeps what it had; once abort_analyze() has
\* set the flag, the analysis walk in progress adds no file to the
\* AnalyzeResult, enters no further directory, and only returns.
C35_AbortStopsWalk ==
    /\ [](ent_abort =>
            /\ Len(ent_result.files) >= ent_abort_at
            /\ Len(ent_result.files) <= ent_abort_at + 1)
    /\ [][ent_abort /\ ent_pc = "check" =>
             /\ ent_result' = ent_result
             /\ ent_pc' \in {"check", "returned"}]_vars
    /\ [][walk_aborted /\ stack # <<>> =>
             /\ walk_result'.file_count = walk_result.file_count
             /\ walk_result'.total_size = walk_result.total_size
             /\ Len(stack') <= Len(stack)
             /\ DOMAIN items' = DOMAIN items]_vars

\* The scan walk was aborted while the first file was being processed: that
\* file is recorded, the walk has returned, and no later entry, inside the
\* subdirectory or after it, was looked at.
C35_Witness ==
    /\ ent_abort /\ ent_pc = "returned"
    /\ ent_abort_at = 0
    /\ Len(ent_result.files) = 1
    /\ \A i \in 2..Len(EntryTree) : ent_kinds[i] = "unvisited"

\* The invocations whose worker is running: scan() returned True and the
\* thread has not ended.
ScanWorkerRuns(w) == scanW[w].pc \in {"start", "loop", "walk", "after", "finish"}

\* C36: the completion callback of one invocation has returned before the
\* next invocation is accepted: while a worker has its completion callback
\* still to invoke, no later scan() has been accepted on the same Scanner.
C36_CompletionBeforeNextAccepted ==
    \A v \in ScanWorkers :
       (scanW[v].pc = "complete" /\ scanW[v].complete_callback = "cb") =>
          \A w \in ScanWorkers : w > v => ~ScanWorkerRuns(w)

\* C37: an abort request never reaches a later operation.  abort_scan() and
\* abort_clean() on an idle object leave the abort flag as it is; an
\* accepted scan(), clean() or analyze_disk() leaves its flag cleared; and a
\* worker leaves its loop before the last target, task or entry only when
\* an abort was requested after its operation was accepted.
C37_AbortNeverLeaks ==
    /\ [][(~running /\ ~running') => abort_flag' = abort_flag]_vars
    /\ [][(~clean_running /\ ~clean_running') =>
              clean_abort_flag' = clean_abort_flag]_vars
    /\ [][(~running /\ running') => ~abort_flag']_vars
    /\ [][(~clean_running /\ clean_running') => ~clean_abort_flag']_vars
    /\ [][(\E k \in AnalyzeWorkers :
               analyzeW[k].pc = "idle" /\ analyzeW'[k].pc = "spawned")
             => ~aborted']_vars
    /\ [](\A w \in ScanWorkers :
            (scanW[w].pc = "finish"
               /\ scanW[w].current < scanW[w].total_targets) => abort_flag)
    /\ [](\A w \in CleanWorkers :
            (cleanW[w].pc \in {"finish", "complete"}
               /\ Len(cleanW[w].results) < Len(cleanW[w].tasks))
            => cleanW[w].aborted)
    /\ [][\A k \in AnalyzeWorkers :
             (AnalyzeWalkEnd(k) /\ analyzeW[k].seen < MaxEntries)
             => analyzeW[k].abort_requested]_vars

\* The first scan was aborted during its walk, abort_scan() was called again
\* after it ended, and the second scan, started afterwards, has walked all
\* of its targets with the flag still cleared.
C37_Witness ==
    /\ driven = "scan"
    /\ scanAbortedAt[1] > 0
    /\ scanW[2].pc = "finish"
    /\ scanW[2].total_targets = MaxTargets
    /\ scanW[2].current = scanW[2].total_targets
    /\ ~abort_flag

C39_RenameNeverOverwrites ==
    [][Len(fileOps') > Len(fileOps) =>
         LET e == fileOps'[Len(fileOps')]
             p == e.task.file_path
             new_path == IF Exists(fs, Bak(p)) THEN BakTs(p, now) ELSE Bak(p)
         IN (e.method = "RENAME" /\ e.existed) =>
               /\ ~Exists(fs, new_path)
               /\ \A q \in DOMAIN fs \ {p} :
                     Exists(fs', q) /\ fs'[q] = fs[q]]_vars

\* The sum of f over the set S.
RECURSIVE SumOver(_, _)
SumOver(f, S) ==
    IF S = {} THEN 0
    ELSE LET x == CHOOSE y \in S : TRUE IN f[x] + SumOver(f, S \ {x})

\* The file nodes of the tree.
FileNodes == {p \in DOMAIN items : ~items[p].is_dir}

\* C40: when the analysis of a directory has run to its end without abort,
\* total_size equals the size of the root item and the sum of the sizes of
\* the file nodes of the tree, file_count is the number of file nodes, and
\* the sizes per extension add up to total_size.
C40_CountersAgreeWithTree ==
    (WalkDone /\ ~walk_aborted) =>
       /\ walk_result.total_size = items[Root].size
       /\ walk_result.total_size =
             SumOver([p \in FileNodes |-> items[p].size], FileNodes)
       /\ walk_result.file_count = Cardinality(FileNodes)
       /\ SumOver(walk_result.file_types, DOMAIN walk_result.file_types)
             = walk_result.total_size

====
